---- MODULE Spec2Model ----
(***************************************************************************)
(* Grishex toolchain: the compiler (AST -> bytecode artifact) and the      *)
(* stack virtual machine (GrishexVM), modelled from src/compiler.py and    *)
(* src/vm.py.                                                              *)
(*                                                                         *)
(* Python values are tagged records of one shape, so that any two values   *)
(* can be compared: t is the Python type, n/d a rational number (ints and  *)
(* bools have d = 1; bool True is 1), s the text of a str.                 *)
(***************************************************************************)
EXTENDS Integers, Sequences, FiniteSets, TLC

\* ------------------------------------------------------------------ bounds
\* Top-level calls (load/deploy/execute/reset) a behaviour of the VM makes.
MaxCalls == 3
\* Size of the pool random.randint draws deployment addresses from.
NumAddr == 2
\* Depth of nested execute_function activations the host stack allows.
MaxDepth == 3
\* Longest function body (in statements) of the enumerated function ASTs.
MaxBody == 2
\* Most parameters of the enumerated function ASTs.
MaxParams == 2

\* Longest source text handed to the lexer.
MaxLen == 5

\* Most declarations in one state block.
MaxVars == 2

\* ------------------------------------------------------------ Python values
IntV(n) == [t |-> "int", n |-> n, d |-> 1, s |-> ""]
BoolV(b) == [t |-> "bool", n |-> IF b THEN 1 ELSE 0, d |-> 1, s |-> ""]
StrV(s) == [t |-> "str", n |-> 0, d |-> 1, s |-> s]
NoneV == [t |-> "none", n |-> 0, d |-> 1, s |-> ""]

IsNum(v) == v.t \in {"int", "bool", "float"}

Abs(x) == IF x < 0 THEN -x ELSE x

RECURSIVE Gcd(_, _)
Gcd(a, b) == IF b = 0 THEN a ELSE Gcd(b, a % b)

\* A Python number from a fraction: float when asked for or when an operand was.
NumV(isFloat, n, d) ==
    LET g == Gcd(Abs(n), Abs(d))
        nn == IF g = 0 THEN 0 ELSE n \div g
        dd == IF g = 0 THEN 1 ELSE d \div g
    IN [t |-> IF isFloat THEN "float" ELSE "int",
        n |-> IF dd < 0 THEN -nn ELSE nn,
        d |-> IF dd < 0 THEN -dd ELSE dd,
        s |-> ""]

\* Python truth value: None, False, 0, 0.0 and "" are falsy.
Truthy(v) ==
    CASE v.t = "none" -> FALSE
      [] v.t = "str" -> v.s # ""
      [] OTHER -> v.n # 0

\* Python ==: numbers compare by value across int/bool/float; a str equals only
\* an equal str; None equals only None.
PyEq(a, b) ==
    CASE IsNum(a) /\ IsNum(b) -> a.n * b.d = b.n * a.d
      [] a.t = "str" /\ b.t = "str" -> a.s = b.s
      [] a.t = "none" /\ b.t = "none" -> TRUE
      [] OTHER -> FALSE

\* The strings the model's programs and arguments use, in lexicographic order
\* (Python orders str by code point).
StrOrder == << "", "GRISH", "Grishinium Token", "self", "stack" >>

StrRank(s) ==
    IF \E i \in 1..Len(StrOrder) : StrOrder[i] = s
    THEN CHOOSE i \in 1..Len(StrOrder) : StrOrder[i] = s
    ELSE Len(StrOrder) + 1

RECURSIVE StrRepeat(_, _)
StrRepeat(s, k) == IF k <= 0 THEN "" ELSE s \o StrRepeat(s, k - 1)

\* Result of a binary operator of the VM on Python values: [ok, v], ok = FALSE
\* when Python raises TypeError for the operand types.
PyOk(v) == [ok |-> TRUE, v |-> v]
PyTypeError == [ok |-> FALSE, v |-> NoneV]

PyAdd(a, b) ==
    CASE IsNum(a) /\ IsNum(b) ->
            PyOk(NumV(a.t = "float" \/ b.t = "float", a.n * b.d + b.n * a.d, a.d * b.d))
      [] a.t = "str" /\ b.t = "str" -> PyOk(StrV(a.s \o b.s))
      [] OTHER -> PyTypeError

PySub(a, b) ==
    IF IsNum(a) /\ IsNum(b)
    THEN PyOk(NumV(a.t = "float" \/ b.t = "float", a.n * b.d - b.n * a.d, a.d * b.d))
    ELSE PyTypeError

PyMul(a, b) ==
    CASE IsNum(a) /\ IsNum(b) ->
            PyOk(NumV(a.t = "float" \/ b.t = "float", a.n * b.n, a.d * b.d))
      [] a.t = "str" /\ b.t \in {"int", "bool"} -> PyOk(StrV(StrRepeat(a.s, b.n)))
      [] a.t \in {"int", "bool"} /\ b.t = "str" -> PyOk(StrV(StrRepeat(b.s, a.n)))
      [] OTHER -> PyTypeError

\* a / b for b # 0 (true division: the result is a float).
PyDiv(a, b) ==
    IF IsNum(a) /\ IsNum(b)
    THEN PyOk(NumV(TRUE, a.n * b.d, a.d * b.n))
    ELSE PyTypeError

PyLess(a, b) ==
    CASE IsNum(a) /\ IsNum(b) -> PyOk(BoolV(a.n * b.d < b.n * a.d))
      [] a.t = "str" /\ b.t = "str" -> PyOk(BoolV(StrRank(a.s) < StrRank(b.s)))
      [] OTHER -> PyTypeError

PyLessEq(a, b) ==
    CASE IsNum(a) /\ IsNum(b) -> PyOk(BoolV(a.n * b.d <= b.n * a.d))
      [] a.t = "str" /\ b.t = "str" -> PyOk(BoolV(StrRank(a.s) <= StrRank(b.s)))
      [] OTHER -> PyTypeError

PyNeg(a) ==
    IF IsNum(a) THEN PyOk(NumV(a.t = "float", -a.n, a.d)) ELSE PyTypeError

\* ------------------------------------------------------------- dictionaries
\* A Python dict as a function; Put is d[k] = v.
EmptyDict == << >>

Put(dict, k, v) == [x \in (DOMAIN dict) \cup {k} |-> IF x = k THEN v ELSE dict[x]]

\* ------------------------------------------------------------- instructions
\* An instruction is a dict with "op" and the fields its opcode uses; the model
\* gives every instruction all fields, unused ones at a default.
Instr(op) ==
    [op |-> op, value |-> NoneV, index |-> 0, offset |-> 0, member |-> "",
     function |-> "", args_count |-> 0, event |-> "", message |-> ""]

\* ---------------------------------------------------------------- AST nodes
\* ASTNode(node_type, **kwargs): node_type, attributes, children.
Node(node_type, attributes, children) ==
    [node_type |-> node_type, attributes |-> attributes, children |-> children]

HasAttr(node, a) == a \in DOMAIN node.attributes

\* ------------------------------------------------------------ symbol tables
\* A Symbol: its type and the attributes the compiler reads (index of a
\* parameter or local, offset of a state variable, value of an enum value,
\* params of an event).
Symbol(symbol_type, type, index, offset, value, params) ==
    [symbol_type |-> symbol_type, type |-> type, index |-> index,
     offset |-> offset, value |-> value, params |-> params]

\* The chain of SymbolTables from the global table (first) to
\* current_symbols (last); each table is a dict name -> Symbol.
SymContains(symbols, name) == name \in DOMAIN symbols[Len(symbols)]

SymDefine(symbols, name, sym) ==
    [symbols EXCEPT ![Len(symbols)] = Put(symbols[Len(symbols)], name, sym)]

SymDefineParent(symbols, name, sym) ==
    [symbols EXCEPT ![Len(symbols) - 1] = Put(symbols[Len(symbols) - 1], name, sym)]

SymFound(symbols, name) == \E i \in 1..Len(symbols) : name \in DOMAIN symbols[i]

\* resolve: the innermost table that has the name wins.
SymResolve(symbols, name) ==
    LET i == CHOOSE k \in 1..Len(symbols) :
                 /\ name \in DOMAIN symbols[k]
                 /\ \A m \in (k + 1)..Len(symbols) : name \notin DOMAIN symbols[m]
    IN symbols[i][name]

SymPush(symbols) == Append(symbols, EmptyDict)

SymPop(symbols) == SubSeq(symbols, 1, Len(symbols) - 1)

\* ----------------------------------------------------------------- compiler
\* The Compiler object after reset().
CompilerReset ==
    [bytecode |-> [version |-> "1.0", contracts |-> EmptyDict],
     symbols |-> << EmptyDict >>,
     current_contract |-> "",
     current_function |-> "",
     state_var_count |-> 0,
     local_var_count |-> 0,
     label_count |-> 0,
     errors |-> << >>,
     exception |-> ""]

\* self.errors.append(CompilerError(message, node))
AddError(c, message) == [c EXCEPT !.errors = Append(@, message)]

Out(c, code) == [c |-> c, code |-> code]

PrimitiveTypes == {"int", "uint", "bool", "address", "string", "bytes", "hash", "float"}

IsValidType(c, type_name) ==
    \/ type_name \in PrimitiveTypes
    \/ /\ type_name \in DOMAIN c.symbols[1]
       /\ c.symbols[1][type_name].symbol_type \in {"STRUCT", "ENUM"}

ZeroAddress == "0x0000000000000000000000000000000000000000"

ZeroHash == "0x0000000000000000000000000000000000000000000000000000000000000000"

DefaultValueForType(type_name) ==
    CASE type_name \in {"int", "uint"} -> IntV(0)
      [] type_name = "bool" -> BoolV(FALSE)
      [] type_name = "float" -> NumV(TRUE, 0, 1)
      [] type_name = "address" -> StrV(ZeroAddress)
      [] type_name = "string" -> StrV("")
      [] type_name = "bytes" -> [t |-> "bytes", n |-> 0, d |-> 1, s |-> ""]
      [] type_name = "hash" -> StrV(ZeroHash)
      [] OTHER -> NoneV

\* "x = e" followed by the code F(x) that uses x: e is evaluated once, where a
\* LET would evaluate it again at every use of x.
Bind(e, F(_)) == CHOOSE r \in {F(x) : x \in {e}} : TRUE

CompileLiteral(c, expr) ==
    Out(c, << [Instr("PUSH") EXCEPT !.value = expr.attributes.value] >>)

CompileIdentifier(c, expr) ==
    LET name == expr.attributes.name IN
    IF SymFound(c.symbols, name)
    THEN LET symbol == SymResolve(c.symbols, name) IN
         CASE symbol.symbol_type \in {"VAR", "PARAM"} ->
                Out(c, << [Instr("LOAD_LOCAL") EXCEPT !.index = symbol.index] >>)
           [] symbol.symbol_type = "STATE_VAR" ->
                Out(c, << [Instr("LOAD_STATE") EXCEPT !.offset = symbol.offset] >>)
           [] symbol.symbol_type = "ENUM_VALUE" ->
                Out(c, << [Instr("PUSH") EXCEPT !.value = IntV(symbol.value)] >>)
           [] OTHER ->
                IF name = "self"
                THEN Out(c, << [Instr("PUSH") EXCEPT !.value = StrV("self")] >>)
                ELSE Out(AddError(c, "Cannot use " \o name \o " as an expression"), << >>)
    ELSE Out(AddError(c, "Undefined identifier: " \o name), << >>)

BinaryOpcode(operator) ==
    CASE operator = "+" -> "ADD"
      [] operator = "-" -> "SUB"
      [] operator = "*" -> "MUL"
      [] operator = "/" -> "DIV"
      [] operator = "%" -> "MOD"
      [] operator = "==" -> "EQ"
      [] operator = "!=" -> "NEQ"
      [] operator = "<" -> "LT"
      [] operator = ">" -> "GT"
      [] operator = "<=" -> "LTE"
      [] operator = ">=" -> "GTE"
      [] operator = "&&" -> "AND"
      [] operator = "||" -> "OR"
      [] OTHER -> ""

UnaryOpcode(operator) ==
    CASE operator = "-" -> "NEG"
      [] operator = "!" -> "NOT"
      [] OTHER -> ""

RECURSIVE CompileExpression(_, _)
RECURSIVE CompileExpressions(_, _)

\* The loop "for arg in args: code.extend(self._compile_expression(arg))".
CompileExpressions(c, exprs) ==
    IF exprs = << >>
    THEN Out(c, << >>)
    ELSE Bind(CompileExpression(c, Head(exprs)), LAMBDA first :
         Bind(CompileExpressions(first.c, Tail(exprs)), LAMBDA rest :
         Out(rest.c, first.code \o rest.code)))

CompileBinaryExpression(c, expr) ==
    LET operator == expr.attributes.operator IN
    Bind(CompileExpression(c, expr.children[1]), LAMBDA left :
    Bind(CompileExpression(left.c, expr.children[2]), LAMBDA right :
    IF BinaryOpcode(operator) # ""
    THEN Out(right.c, Append(left.code \o right.code, Instr(BinaryOpcode(operator))))
    ELSE Out(AddError(right.c, "Unknown binary operator: " \o operator),
             left.code \o right.code)))

CompileUnaryExpression(c, expr) ==
    LET operator == expr.attributes.operator IN
    Bind(CompileExpression(c, expr.children[1]), LAMBDA operand :
    IF UnaryOpcode(operator) # ""
    THEN Out(operand.c, Append(operand.code, Instr(UnaryOpcode(operator))))
    ELSE Out(AddError(operand.c, "Unknown unary operator: " \o operator), operand.code))

CompileMemberAccess(c, expr) ==
    Bind(CompileExpression(c, expr.children[1]), LAMBDA obj :
    Out(obj.c, Append(obj.code,
                      [Instr("LOAD_MEMBER") EXCEPT !.member = expr.attributes.member])))

CompileIndexAccess(c, expr) ==
    Bind(CompileExpression(c, expr.children[1]), LAMBDA obj :
    Bind(CompileExpression(obj.c, expr.children[2]), LAMBDA index :
    Out(index.c, Append(obj.code \o index.code, Instr("LOAD_INDEX")))))

CompileCallExpression(c, expr) ==
    Bind(CompileExpressions(c, expr.children), LAMBDA args :
    Out(args.c, Append(args.code,
                       [Instr("CALL") EXCEPT !.function = expr.attributes.function,
                                             !.args_count = Len(expr.children)])))

ExpressionTypes ==
    {"BINARY_EXPR", "UNARY_EXPR", "LITERAL", "IDENTIFIER", "MEMBER_ACCESS",
     "INDEX_ACCESS", "CALL_EXPR"}

CompileExpression(c, expr) ==
    CASE c.exception # "" -> Out(c, << >>)
      [] expr.node_type = "BINARY_EXPR" -> CompileBinaryExpression(c, expr)
      [] expr.node_type = "UNARY_EXPR" -> CompileUnaryExpression(c, expr)
      [] expr.node_type = "LITERAL" -> CompileLiteral(c, expr)
      [] expr.node_type = "IDENTIFIER" -> CompileIdentifier(c, expr)
      [] expr.node_type = "MEMBER_ACCESS" -> CompileMemberAccess(c, expr)
      [] expr.node_type = "INDEX_ACCESS" -> CompileIndexAccess(c, expr)
      [] expr.node_type = "CALL_EXPR" -> CompileCallExpression(c, expr)
      [] OTHER -> Out(AddError(c, "Unknown expression type: ASTNodeType." \o expr.node_type), << >>)

\* The slot _compile_var_declaration gives a new local: the counter's value.
LocalSlot(c) == c.local_var_count

CompileVarDeclaration(c, stmt) ==
    LET var_name == stmt.attributes.name
        type_name == stmt.children[1].attributes.name
    IN
    IF SymContains(c.symbols, var_name)
    THEN Out(AddError(c, "Variable " \o var_name \o " already defined"), << >>)
    ELSE IF ~IsValidType(c, type_name)
    THEN Out(AddError(c, "Unknown type " \o type_name), << >>)
    ELSE Bind(IF Len(stmt.children) > 1
              THEN CompileExpression(c, stmt.children[2])
              ELSE Out(c, << [Instr("PUSH") EXCEPT
                                 !.value = DefaultValueForType(type_name)] >>),
              LAMBDA init :
         Out([init.c EXCEPT
                 !.symbols = SymDefine(init.c.symbols, var_name,
                                 Symbol("VAR", type_name, LocalSlot(init.c), 0, 0, << >>)),
                 !.local_var_count = init.c.local_var_count + 1],
             Append(init.code, [Instr("STORE_LOCAL") EXCEPT !.index = LocalSlot(init.c)])))

CompileAssignment(c, stmt) ==
    LET left == stmt.children[1] IN
    Bind(CompileExpression(c, stmt.children[2]), LAMBDA right :
    CASE left.node_type = "IDENTIFIER" ->
           LET name == left.attributes.name IN
           IF SymFound(right.c.symbols, name)
           THEN LET symbol == SymResolve(right.c.symbols, name) IN
                CASE symbol.symbol_type \in {"VAR", "PARAM"} ->
                       Out(right.c, Append(right.code,
                               [Instr("STORE_LOCAL") EXCEPT !.index = symbol.index]))
                  [] symbol.symbol_type = "STATE_VAR" ->
                       Out(right.c, Append(right.code,
                               [Instr("STORE_STATE") EXCEPT !.offset = symbol.offset]))
                  [] OTHER -> Out(AddError(right.c, "Cannot assign to " \o name), right.code)
           ELSE Out(AddError(right.c, "Undefined identifier: " \o name), right.code)
      [] left.node_type = "MEMBER_ACCESS" ->
           Bind(CompileExpression(right.c, left.children[1]), LAMBDA obj :
           Out(obj.c,
               Append(Append(right.code, Instr("DUP")) \o obj.code,
                      [Instr("STORE_MEMBER") EXCEPT !.member = left.attributes.member])))
      [] left.node_type = "INDEX_ACCESS" ->
           Bind(CompileExpression(right.c, left.children[1]), LAMBDA obj :
           Bind(CompileExpression(obj.c, left.children[2]), LAMBDA index :
           Out(index.c,
               Append(Append(right.code, Instr("DUP")) \o obj.code \o index.code,
                      Instr("STORE_INDEX")))))
      [] OTHER -> Out(AddError(right.c, "Invalid assignment target"), right.code))

CompileReturnStatement(c, stmt) ==
    IF stmt.children # << >>
    THEN Bind(CompileExpression(c, stmt.children[1]), LAMBDA expr :
         Out(expr.c, Append(expr.code, [Instr("RETURN") EXCEPT !.value = StrV("stack")])))
    ELSE Out(c, << Instr("RETURN") >>)

\* CompileRequireStatement, were the condition's code emitted twice.
CompileRequireStatementTwice(c, stmt) ==
    LET message == IF HasAttr(stmt, "message") THEN stmt.attributes.message
                                               ELSE "Requirement failed"
    IN Bind(CompileExpression(c, stmt.children[1]), LAMBDA condition :
       Out(condition.c,
           Append(condition.code \o condition.code,
                  [Instr("REQUIRE") EXCEPT !.message = message])))

CompileRequireStatement(c, stmt) ==
    LET message == IF HasAttr(stmt, "message") THEN stmt.attributes.message
                                               ELSE "Requirement failed"
    IN Bind(CompileExpression(c, stmt.children[1]), LAMBDA condition :
       Out(condition.c,
           Append(condition.code, [Instr("REQUIRE") EXCEPT !.message = message])))

CompileEmitStatement(c, stmt) ==
    LET event_name == stmt.attributes.event
        args == stmt.children
    IN
    IF ~(SymFound(c.symbols, event_name)
         /\ SymResolve(c.symbols, event_name).symbol_type = "EVENT")
    THEN Out(AddError(c, "Undefined event: " \o event_name), << >>)
    ELSE IF Len(args) # Len(SymResolve(c.symbols, event_name).params)
    THEN Out(AddError(c, "Event " \o event_name \o " expects "
                         \o ToString(Len(SymResolve(c.symbols, event_name).params))
                         \o " arguments, got " \o ToString(Len(args))), << >>)
    ELSE Bind(CompileExpressions(c, args), LAMBDA argcode :
         Out(argcode.c,
             Append(argcode.code,
                    [Instr("EMIT") EXCEPT !.event = event_name, !.args_count = Len(args)])))

\* Statement kinds _compile_statement dispatches to methods the class does not
\* define: the call raises AttributeError, which compile() does not catch.
UndefinedStatementMethods ==
    {"WHILE_STMT", "FOR_STMT", "FOREACH_STMT", "ASSERT_STMT", "REVERT_STMT",
     "TRY_CATCH_STMT"}

RECURSIVE CompileStatement(_, _)
RECURSIVE CompileStatements(_, _)

\* The loop "for stmt_node in block.children: code.extend(...)".
CompileStatements(c, stmts) ==
    IF stmts = << >> \/ c.exception # ""
    THEN Out(c, << >>)
    ELSE Bind(CompileStatement(c, Head(stmts)), LAMBDA first :
         Bind(CompileStatements(first.c, Tail(stmts)), LAMBDA rest :
         Out(rest.c, first.code \o rest.code)))

CompileBlock(c, block) ==
    Bind(CompileStatements([c EXCEPT !.symbols = SymPush(c.symbols)], block.children),
         LAMBDA inner :
    IF inner.c.exception # ""
    THEN inner
    ELSE Out([inner.c EXCEPT !.symbols = c.symbols], inner.code))

\* JumpOverOffset, were the placeholder offset 0 left in the instruction.
JumpOverOffsetUnpatched(n) == 0

\* Offset of a forward jump over a block of n instructions, as patched into
\* the JUMP_IF_FALSE / JUMP placeholders.
JumpOverOffset(n) == n + 1

CompileIfStatement(c, stmt) ==
    LET jump_if_false == [Instr("JUMP_IF_FALSE") EXCEPT !.offset = 0] IN
    Bind(CompileExpression(c, stmt.children[1]), LAMBDA condition :
    IF Len(stmt.children) <= 2
    THEN Bind(CompileStatement([condition.c EXCEPT !.label_count = @ + 1],
                               stmt.children[2]), LAMBDA if_code :
         Out(if_code.c,
             Append(condition.code,
                    [jump_if_false EXCEPT !.offset = JumpOverOffset(Len(if_code.code))])
             \o if_code.code))
    ELSE Bind(CompileStatement([condition.c EXCEPT !.label_count = @ + 2],
                               stmt.children[2]), LAMBDA if_code :
         Bind(CompileStatement(if_code.c, stmt.children[3]), LAMBDA else_code :
         Out(else_code.c,
             Append(condition.code,
                    [jump_if_false EXCEPT !.offset = JumpOverOffset(Len(if_code.code))])
             \o if_code.code
             \o << [Instr("JUMP") EXCEPT !.offset = JumpOverOffset(Len(else_code.code))] >>
             \o else_code.code))))

CompileStatement(c, stmt) ==
    CASE c.exception # "" -> Out(c, << >>)
      [] stmt.node_type = "BLOCK" -> CompileBlock(c, stmt)
      [] stmt.node_type = "VAR_DECLARATION" -> CompileVarDeclaration(c, stmt)
      [] stmt.node_type = "ASSIGNMENT" -> CompileAssignment(c, stmt)
      [] stmt.node_type = "IF_STMT" -> CompileIfStatement(c, stmt)
      [] stmt.node_type \in UndefinedStatementMethods ->
            Out([c EXCEPT !.exception = "AttributeError"], << >>)
      [] stmt.node_type = "RETURN_STMT" -> CompileReturnStatement(c, stmt)
      [] stmt.node_type = "REQUIRE_STMT" -> CompileRequireStatement(c, stmt)
      [] stmt.node_type = "EMIT_STMT" -> CompileEmitStatement(c, stmt)
      [] stmt.node_type \in ExpressionTypes ->
            Bind(CompileExpression(c, stmt), LAMBDA expr :
            Out(expr.c, Append(expr.code, Instr("POP"))))
      [] OTHER -> Out(AddError(c, "Unknown statement type: ASTNodeType." \o stmt.node_type), << >>)

\* The parameter loop of _compile_constructor / _compile_function over
\* children[:-1]; i is enumerate's index (0-based) of the child. The result
\* is the compiler with the params list in place of the code.
RECURSIVE CompileParams(_, _, _, _)
CompileParams(c, nodes, i, params) ==
    IF i >= Len(nodes)
    THEN Out(c, params)
    ELSE LET param_node == nodes[i + 1] IN
         IF param_node.node_type # "PARAM"
         THEN CompileParams(c, nodes, i + 1, params)
         ELSE LET param_name == param_node.attributes.name
                  type_name == param_node.children[1].attributes.name
              IN
              IF SymContains(c.symbols, param_name)
              THEN Bind(AddError(c, "Parameter " \o param_name \o " already defined"),
                        LAMBDA c1 : CompileParams(c1, nodes, i + 1, params))
              ELSE IF ~IsValidType(c, type_name)
              THEN Bind(AddError(c, "Unknown type " \o type_name),
                        LAMBDA c1 : CompileParams(c1, nodes, i + 1, params))
              ELSE Bind([c EXCEPT !.symbols = SymDefine(c.symbols, param_name,
                                                Symbol("PARAM", type_name, i, 0, 0, << >>))],
                        LAMBDA c1 :
                        CompileParams(c1, nodes, i + 1,
                                      Append(params, [name |-> param_name,
                                                      type |-> type_name])))

\* An entry of contract["functions"]; the constructor's entry has only params
\* and code (has_meta = FALSE), a function's also return_type (has_return_type
\* = FALSE for None), is_view and is_private.
FunctionEntry(params, code, has_meta, has_return_type, return_type, is_view, is_private) ==
    [params |-> params, code |-> code, has_meta |-> has_meta,
     has_return_type |-> has_return_type, return_type |-> return_type,
     is_view |-> is_view, is_private |-> is_private]

PutFunction(c, function_name, entry) ==
    [c EXCEPT !.bytecode.contracts[c.current_contract].functions =
                  Put(@, function_name, entry)]

CompileConstructor(c, constructor) ==
    LET n == Len(constructor.children) IN
    Bind(CompileParams([c EXCEPT !.symbols = SymPush(c.symbols),
                                 !.current_function = "constructor",
                                 !.local_var_count = 0],
                       SubSeq(constructor.children, 1, n - 1), 0, << >>), LAMBDA ps :
    Bind(CompileBlock(ps.c, constructor.children[n]), LAMBDA body :
    IF body.c.exception # ""
    THEN body.c
    ELSE Bind(PutFunction(body.c, "constructor",
                          FunctionEntry(ps.code, Append(body.code, Instr("RETURN")),
                                        FALSE, FALSE, "", FALSE, FALSE)), LAMBDA c1 :
         [c1 EXCEPT !.symbols = SymPop(c1.symbols), !.current_function = ""])))

\* Whether _compile_function appends the implicit RETURN with the default value.
NeedsImplicitReturn(has_return_type, code) ==
    has_return_type /\ ~(\E k \in 1..Len(code) : code[k].op = "RETURN")

CompileFunction(c, function) ==
    LET function_name == function.attributes.name
        n == Len(function.children)
        declared == HasAttr(function, "return_type")
        declared_type == IF declared THEN function.attributes.return_type.attributes.name
                                     ELSE ""
        is_view == IF HasAttr(function, "is_view") THEN function.attributes.is_view ELSE FALSE
        is_private == IF HasAttr(function, "is_private") THEN function.attributes.is_private
                                                         ELSE FALSE
    IN
    IF SymContains(c.symbols, function_name)
    THEN AddError(c, "Function " \o function_name \o " already defined")
    ELSE
    Bind(CompileParams([c EXCEPT !.symbols = SymPush(c.symbols),
                                 !.current_function = function_name,
                                 !.local_var_count = 0],
                       SubSeq(function.children, 1, n - 1), 0, << >>), LAMBDA ps :
    LET type_ok == declared /\ IsValidType(ps.c, declared_type)
        \* "if return_type and ...": an empty type name is falsy as well.
        has_return_type == type_ok /\ declared_type # ""
        return_type == IF type_ok THEN declared_type ELSE ""
    IN
    Bind(CompileBlock(IF declared /\ ~type_ok
                      THEN AddError(ps.c, "Unknown return type " \o declared_type)
                      ELSE ps.c,
                      function.children[n]), LAMBDA body :
    IF body.c.exception # ""
    THEN body.c
    ELSE
    LET code == IF NeedsImplicitReturn(has_return_type, body.code)
                THEN Append(body.code,
                            [Instr("RETURN") EXCEPT !.value = DefaultValueForType(return_type)])
                ELSE body.code
    IN
    Bind(PutFunction(body.c, function_name,
                     FunctionEntry(ps.code, code, TRUE, type_ok, return_type,
                                   is_view, is_private)), LAMBDA c2 :
    [c2 EXCEPT !.symbols = SymPop(SymDefineParent(c2.symbols, function_name,
                                      Symbol("FUNCTION", return_type, 0, 0, 0, << >>))),
               !.current_function = ""])))

RECURSIVE CompileStateVariables(_, _)
CompileStateVariables(c, nodes) ==
    IF nodes = << >>
    THEN c
    ELSE LET node == Head(nodes) IN
         IF node.node_type # "VAR_DECLARATION"
         THEN CompileStateVariables(c, Tail(nodes))
         ELSE LET var_name == node.attributes.name
                  type_name == node.children[1].attributes.name
              IN
              Bind(IF SymContains(c.symbols, var_name)
                   THEN AddError(c, "Variable " \o var_name \o " already defined")
                   ELSE IF ~IsValidType(c, type_name)
                   THEN AddError(c, "Unknown type " \o type_name)
                   ELSE [c EXCEPT
                           !.symbols = SymDefine(c.symbols, var_name,
                                          Symbol("STATE_VAR", type_name, 0, c.state_var_count,
                                                 0, << >>)),
                           !.bytecode.contracts[c.current_contract].state_variables =
                               Put(@, var_name,
                                   [type |-> type_name, offset |-> c.state_var_count]),
                           !.state_var_count = c.state_var_count + 1],
                   LAMBDA c1 : CompileStateVariables(c1, Tail(nodes)))

\* The parameter loop of _compile_event; the result is the compiler with the
\* params list in place of the code.
RECURSIVE CompileEventParams(_, _, _)
CompileEventParams(c, nodes, params) ==
    IF nodes = << >>
    THEN Out(c, params)
    ELSE LET param_node == Head(nodes) IN
         IF param_node.node_type # "PARAM"
         THEN CompileEventParams(c, Tail(nodes), params)
         ELSE LET type_name == param_node.children[1].attributes.name IN
              IF ~IsValidType(c, type_name)
              THEN Bind(AddError(c, "Unknown type " \o type_name),
                        LAMBDA c1 : CompileEventParams(c1, Tail(nodes), params))
              ELSE CompileEventParams(c, Tail(nodes),
                       Append(params, [name |-> param_node.attributes.name,
                                       type |-> type_name]))

CompileEvent(c, event) ==
    LET event_name == event.attributes.name IN
    IF SymContains(c.symbols, event_name)
    THEN AddError(c, "Event " \o event_name \o " already defined")
    ELSE Bind(CompileEventParams(c, event.children, << >>), LAMBDA ps :
         [ps.c EXCEPT
            !.bytecode.contracts[ps.c.current_contract].events =
                Put(@, event_name, [params |-> ps.code]),
            !.symbols = SymDefine(ps.c.symbols, event_name,
                                  Symbol("EVENT", "", 0, 0, 0, ps.code))])

\* The loop of _compile_contract over the contract's children.
RECURSIVE CompileMembers(_, _)
CompileMembers(c, nodes) ==
    IF nodes = << >> \/ c.exception # ""
    THEN c
    ELSE LET node == Head(nodes) IN
         Bind(CASE node.node_type = "STATE" -> CompileStateVariables(c, node.children)
                [] node.node_type = "CONSTRUCTOR" -> CompileConstructor(c, node)
                [] node.node_type = "FUNCTION" -> CompileFunction(c, node)
                [] node.node_type = "EVENT" -> CompileEvent(c, node)
                [] OTHER -> c,
              LAMBDA c1 : CompileMembers(c1, Tail(nodes)))

\* _compile_contract without "self.state_var_count = 0".
CompileContractContinuing(c, contract) ==
    Bind(CompileMembers([c EXCEPT !.current_contract = contract.attributes.name,
                                  !.symbols = << c.symbols[1], EmptyDict >>],
                        contract.children), LAMBDA c1 :
    IF c1.exception # ""
    THEN c1
    ELSE [c1 EXCEPT !.symbols = << c1.symbols[1] >>, !.current_contract = ""])

CompileContract(c, contract) ==
    Bind(CompileMembers([c EXCEPT !.current_contract = contract.attributes.name,
                                  !.symbols = << c.symbols[1], EmptyDict >>,
                                  !.state_var_count = 0],
                        contract.children), LAMBDA c1 :
    IF c1.exception # ""
    THEN c1
    ELSE [c1 EXCEPT !.symbols = << c1.symbols[1] >>, !.current_contract = ""])

RECURSIVE CompileProgram(_, _)
CompileProgram(c, nodes) ==
    IF nodes = << >> \/ c.exception # ""
    THEN c
    ELSE Bind(IF Head(nodes).node_type = "CONTRACT"
              THEN CompileContract(c, Head(nodes))
              ELSE c,
              LAMBDA c1 : CompileProgram(c1, Tail(nodes)))

EmptyContractEntry ==
    [state_variables |-> EmptyDict, functions |-> EmptyDict, events |-> EmptyDict]

\* The enum-value loop of _gather_declarations; i is enumerate's index.
RECURSIVE GatherEnumValues(_, _, _, _)
GatherEnumValues(c, enum_name, nodes, i) ==
    IF i >= Len(nodes)
    THEN c
    ELSE LET value_node == nodes[i + 1] IN
         IF value_node.node_type # "IDENTIFIER"
         THEN GatherEnumValues(c, enum_name, nodes, i + 1)
         ELSE Bind(IF value_node.attributes.name \in DOMAIN c.symbols[1]
                   THEN AddError(c, "Enum value " \o value_node.attributes.name
                                    \o " already defined")
                   ELSE [c EXCEPT !.symbols[1] =
                                     Put(@, value_node.attributes.name,
                                         Symbol("ENUM_VALUE", enum_name, 0, 0, i, << >>))],
                   LAMBDA c1 : GatherEnumValues(c1, enum_name, nodes, i + 1))

DeclarationKind(node_type) ==
    CASE node_type = "CONTRACT" -> "Contract"
      [] node_type = "INTERFACE" -> "Interface"
      [] node_type = "STRUCT" -> "Struct"
      [] node_type = "ENUM" -> "Enum"
      [] OTHER -> ""

RECURSIVE GatherDeclarations(_, _)
GatherDeclarations(c, nodes) ==
    IF nodes = << >>
    THEN c
    ELSE LET node == Head(nodes)
             kind == DeclarationKind(node.node_type)
         IN
         IF kind = ""
         THEN GatherDeclarations(c, Tail(nodes))
         ELSE Bind(IF node.attributes.name \in DOMAIN c.symbols[1]
                   THEN AddError(c, kind \o " " \o node.attributes.name \o " already defined")
                   ELSE Bind([c EXCEPT !.symbols[1] =
                                  Put(@, node.attributes.name,
                                      Symbol(node.node_type, "", 0, 0, 0, << >>))],
                             LAMBDA c1 :
                             CASE node.node_type = "CONTRACT" ->
                                    [c1 EXCEPT !.bytecode.contracts =
                                                  Put(@, node.attributes.name,
                                                      EmptyContractEntry)]
                               [] node.node_type = "ENUM" ->
                                    GatherEnumValues(c1, node.attributes.name,
                                                     node.children, 0)
                               [] OTHER -> c1),
                   LAMBDA c2 : GatherDeclarations(c2, Tail(nodes)))

\* Compiler.compile(ast) on a compiler in state c: the compiler afterwards;
\* the returned artifact is its bytecode, the error list its errors. A
\* CompilerError is never raised by the methods (they append to errors), so the
\* except clause catches nothing; any other exception escapes.
Compile(c, ast) ==
    IF ast.node_type # "PROGRAM"
    THEN AddError(c, "Expected program node")
    ELSE Bind(GatherDeclarations(c, ast.children), LAMBDA gathered :
         IF gathered.errors # << >>
         THEN gathered
         ELSE CompileProgram(gathered, ast.children))

\* ----------------------------------------------------------- virtual machine
\* The GrishexVM object, the Python activations in progress on it, and what
\* the host's last top-level call gave back.
VARIABLES
    contracts,          \* self.contracts: name -> contract bytecode
    contract_instances, \* self.contract_instances, in insertion order
    storage,            \* self.storage: address -> (offset -> value)
    logs,               \* self.logs
    addresses,          \* self.addresses: name -> address
    call_stack,         \* self.call_stack: frames, innermost last
    stats,              \* self.stats
    pystack,            \* Python activations of deploy_contract/execute_function
    last,               \* outcome of the last top-level call, as the host sees it
    ncalls,             \* top-level calls made so far
    host,               \* the last top-level call: which method, and the VM as
                        \* the call found it
    deployed            \* what deploy_contract has returned since the last reset:
                        \* name -> the address it returned last for that name

vmvars == << contracts, contract_instances, storage, logs, addresses, call_stack,
             stats, pystack, last, ncalls, host, deployed >>

\* The VM as one record, for the operators that compute a call's effect.
Machine ==
    [contracts |-> contracts, contract_instances |-> contract_instances,
     storage |-> storage, logs |-> logs, addresses |-> addresses,
     call_stack |-> call_stack, stats |-> stats, pystack |-> pystack, last |-> last]

Becomes(m) ==
    /\ contracts' = m.contracts
    /\ contract_instances' = m.contract_instances
    /\ storage' = m.storage
    /\ logs' = m.logs
    /\ addresses' = m.addresses
    /\ call_stack' = m.call_stack
    /\ stats' = m.stats
    /\ pystack' = m.pystack
    /\ last' = m.last

ZeroStats ==
    [gas_used |-> 0, instructions_executed |-> 0, function_calls |-> 0,
     storage_reads |-> 0, storage_writes |-> 0]

\* What the host got from a top-level call: outcome "ok" with the returned
\* value (or, from deploy_contract, the address), or the exception's class with
\* its message; "running" while the call is in progress.
Outcome(outcome, message, value, address) ==
    [outcome |-> outcome, message |-> message, value |-> value, address |-> address]

\* reset(), were it to keep the loaded contracts.
ResetKeepingContracts(m) ==
    [m EXCEPT !.contract_instances = << >>,
              !.storage = EmptyDict,
              !.logs = << >>,
              !.addresses = EmptyDict,
              !.call_stack = << >>,
              !.stats = ZeroStats]

\* reset(): every field of the VM.
ResetMachine(m) ==
    [m EXCEPT !.contracts = EmptyDict,
              !.contract_instances = << >>,
              !.storage = EmptyDict,
              !.logs = << >>,
              !.addresses = EmptyDict,
              !.call_stack = << >>,
              !.stats = ZeroStats]

\* Raise, were a failure to discard what the contracts have stored.
RaiseRollback(m, kind, message) ==
    [m EXCEPT !.pystack = << >>,
              !.last = Outcome(kind, message, NoneV, 0),
              !.storage = [a \in DOMAIN @ |-> EmptyDict]]

\* Raise, were the exception to end only the invocation that raises it and
\* its caller to go on.
RaiseToCaller(m, kind, message) ==
    [m EXCEPT !.pystack = SubSeq(@, 1, IF Len(@) > 0 THEN Len(@) - 1 ELSE 0),
              !.last = Outcome(kind, message, NoneV, 0)]

\* Raise, were a failing call to clear the statistics.
RaiseClearingStats(m, kind, message) ==
    [m EXCEPT !.pystack = << >>,
              !.last = Outcome(kind, message, NoneV, 0),
              !.stats = ZeroStats]

\* An exception leaves the method that raises it and every caller up to the
\* host: no VM method catches it, and nothing after the call site runs.
Raise(m, kind, message) ==
    [m EXCEPT !.pystack = << >>,
              !.last = Outcome(kind, message, NoneV, 0)]

\* An activation on pystack: "exec" is an execute_function running
\* _execute_code on the frame it pushed, "deploy" a deploy_contract waiting for
\* the constructor, "resolve" an execute_function waiting for the
\* deploy_contract it called to get an address.
Activation(kind, contract_name, function_name, args, address) ==
    [kind |-> kind, contract_name |-> contract_name, function_name |-> function_name,
     args |-> args, address |-> address]

ExecDepth(m) == Cardinality({k \in 1..Len(m.pystack) : m.pystack[k].kind = "exec"})

InstanceIndex(instances, address) ==
    IF \E k \in 1..Len(instances) : instances[k].address = address
    THEN CHOOSE k \in 1..Len(instances) : instances[k].address = address
    ELSE 0

\* self.contract_instances[address] = {...}: a new key goes last, an existing
\* key keeps its place.
PutInstance(instances, address, name) ==
    LET entry == [address |-> address, name |-> name, storage_address |-> address]
        k == InstanceIndex(instances, address)
    IN IF k = 0 THEN Append(instances, entry) ELSE [instances EXCEPT ![k] = entry]

\* The first deployed instance of a contract, 0 when there is none.
FirstInstanceOf(instances, contract_name) ==
    IF \E k \in 1..Len(instances) : instances[k].name = contract_name
    THEN instances[CHOOSE k \in 1..Len(instances) :
                       /\ instances[k].name = contract_name
                       /\ \A j \in 1..(k - 1) : instances[j].name # contract_name].address
    ELSE 0

Frame(contract_name, contract_address, function_name, locals) ==
    [contract_name |-> contract_name, contract_address |-> contract_address,
     function_name |-> function_name, locals |-> locals, stack |-> << >>, pc |-> 0]

\* execute_function from the argument check on: the address is known.
PushFrame(m, contract_name, function_name, args, contract_address) ==
    LET params == m.contracts[contract_name].functions[function_name].params IN
    IF Len(args) # Len(params)
    THEN Raise(m, "VMError", "Expected " \o ToString(Len(params)) \o " arguments, got "
                              \o ToString(Len(args)))
    ELSE IF ExecDepth(m) >= MaxDepth
    THEN Raise(m, "RecursionError", "maximum recursion depth exceeded")
    ELSE [m EXCEPT
            !.call_stack = Append(@, Frame(contract_name, contract_address, function_name,
                                           [i \in 0..(Len(args) - 1) |-> args[i + 1]])),
            !.stats.function_calls = @ + 1,
            !.pystack = Append(@, Activation("exec", contract_name, function_name,
                                             args, contract_address))]

RECURSIVE EnterFunction(_, _, _, _, _, _)
RECURSIVE Return(_, _)

\* deploy_contract that keeps the shortcut of an earlier deployment of the
\* same name.
DeployContractFirstWins(m, contract_name, constructor_args, rnd) ==
    IF contract_name \notin DOMAIN m.contracts
    THEN Raise(m, "VMError", "Contract " \o contract_name \o " not found")
    ELSE LET address == rnd
             m1 == [m EXCEPT
                      !.contract_instances = PutInstance(@, address, contract_name),
                      !.storage = Put(@, address, EmptyDict),
                      !.addresses = IF contract_name \in DOMAIN @
                                    THEN @
                                    ELSE Put(@, contract_name, address),
                      !.pystack = Append(@, Activation("deploy", contract_name, "",
                                                       constructor_args, address))]
         IN IF "constructor" \in DOMAIN m.contracts[contract_name].functions
            THEN EnterFunction(m1, contract_name, "constructor", constructor_args, address, rnd)
            ELSE Return(m1, NoneV)

\* deploy_contract(contract_name, constructor_args); rnd is what
\* random.randint returns. With a constructor the call goes on in the
\* constructor's frame; without one it returns the address at once.
DeployContractCall(m, contract_name, constructor_args, rnd) ==
    IF contract_name \notin DOMAIN m.contracts
    THEN Raise(m, "VMError", "Contract " \o contract_name \o " not found")
    ELSE LET address == rnd
             m1 == [m EXCEPT
                      !.contract_instances = PutInstance(@, address, contract_name),
                      !.storage = Put(@, address, EmptyDict),
                      !.addresses = Put(@, contract_name, address),
                      !.pystack = Append(@, Activation("deploy", contract_name, "",
                                                       constructor_args, address))]
         IN IF "constructor" \in DOMAIN m.contracts[contract_name].functions
            THEN EnterFunction(m1, contract_name, "constructor", constructor_args, address, rnd)
            ELSE Return(m1, NoneV)

\* execute_function(contract_name, function_name, args, contract_address) up
\* to the call of _execute_code; contract_address 0 is "not given", rnd is what
\* random.randint returns should the call deploy.
EnterFunction(m, contract_name, function_name, args, contract_address, rnd) ==
    IF contract_name \notin DOMAIN m.contracts
    THEN Raise(m, "VMError", "Contract " \o contract_name \o " not found")
    ELSE IF function_name \notin DOMAIN m.contracts[contract_name].functions
    THEN Raise(m, "VMError", "Function " \o function_name \o " not found in contract "
                              \o contract_name)
    ELSE IF contract_address # 0
    THEN PushFrame(m, contract_name, function_name, args, contract_address)
    ELSE IF contract_name \in DOMAIN m.addresses
    THEN PushFrame(m, contract_name, function_name, args, m.addresses[contract_name])
    ELSE IF FirstInstanceOf(m.contract_instances, contract_name) # 0
    THEN PushFrame(m, contract_name, function_name, args,
                   FirstInstanceOf(m.contract_instances, contract_name))
    ELSE DeployContractCall(
            [m EXCEPT !.pystack = Append(@, Activation("resolve", contract_name,
                                                       function_name, args, 0))],
            contract_name, << >>, rnd)

\* The activation on top of pystack returns to its caller: an execute_function
\* pops its frame and returns value; a deploy_contract returns its address.
Return(m, value) ==
    LET top == m.pystack[Len(m.pystack)]
        rest == SubSeq(m.pystack, 1, Len(m.pystack) - 1)
        m1 == [m EXCEPT
                 !.pystack = rest,
                 !.call_stack = IF top.kind = "exec"
                                THEN SubSeq(@, 1, Len(@) - 1)
                                ELSE @]
    IN
    IF rest = << >>
    THEN [m1 EXCEPT !.last = IF top.kind = "deploy"
                             THEN Outcome("ok", "", NoneV, top.address)
                             ELSE Outcome("ok", "", value, 0)]
    ELSE LET caller == rest[Len(rest)] IN
         CASE caller.kind = "exec" ->
                \* CALL: frame["stack"].append(result), then i += 1
                [m1 EXCEPT !.call_stack[Len(m1.call_stack)] =
                               [@ EXCEPT !.stack = Append(@, value), !.pc = @ + 1]]
           [] caller.kind = "deploy" ->
                \* deploy_contract drops the constructor's result
                Return(m1, NoneV)
           [] OTHER ->
                \* execute_function got its address from deploy_contract
                PushFrame([m1 EXCEPT !.pystack = SubSeq(rest, 1, Len(rest) - 1)],
                          caller.contract_name, caller.function_name, caller.args,
                          top.address)

\* ------------------------------------------------------ _execute_code, by opcode
\* Each operator is one arm of the dispatch: m is the VM with the statistics
\* of this instruction already counted, f the running frame (the top of
\* call_stack), ins the instruction at f.pc.
Top(m) == m.call_stack[Len(m.call_stack)]

SetTop(m, f) == [m EXCEPT !.call_stack[Len(m.call_stack)] = f]

\* Advance, were an iteration to end with "i += 2".
AdvanceByTwo(m, f) == SetTop(m, [f EXCEPT !.pc = @ + 2])

\* The "i += 1" that ends an iteration of the loop.
Advance(m, f) == SetTop(m, [f EXCEPT !.pc = @ + 1])

\* list.pop() n times: the frame afterwards; popping an empty stack raises
\* IndexError after the pops that succeeded.
PopN(f, n) ==
    [f EXCEPT !.stack = SubSeq(@, 1, IF Len(@) >= n THEN Len(@) - n ELSE 0)]

PopFails(m, f, n) == Raise(SetTop(m, PopN(f, n)), "IndexError", "pop from empty list")

\* The k-th value from the top of the stack (1 is the top).
Peek(f, k) == f.stack[Len(f.stack) + 1 - k]

OpPUSH(m, f, ins) == Advance(m, [f EXCEPT !.stack = Append(@, ins.value)])

OpPOP(m, f, ins) ==
    IF Len(f.stack) < 1 THEN PopFails(m, f, 1) ELSE Advance(m, PopN(f, 1))

OpSTORE_LOCAL(m, f, ins) ==
    IF Len(f.stack) < 1
    THEN PopFails(m, f, 1)
    ELSE Advance(m, [PopN(f, 1) EXCEPT !.locals = Put(@, ins.index, Peek(f, 1))])

OpLOAD_LOCAL(m, f, ins) ==
    IF ins.index \in DOMAIN f.locals
    THEN Advance(m, [f EXCEPT !.stack = Append(@, f.locals[ins.index])])
    ELSE Raise(m, "VMError", "Local variable at index " \o ToString(ins.index) \o " not found")

\* self.storage.get(address, {})
StorageOf(m, address) ==
    IF address \in DOMAIN m.storage THEN m.storage[address] ELSE EmptyDict

\* OpSTORE_STATE, were the storage that of the contract's shortcut address
\* where there is one, not that of the frame's address.
OpSTORE_STATEAtShortcut(m, f, ins) ==
    IF Len(f.stack) < 1
    THEN PopFails(m, f, 1)
    ELSE LET address == IF f.contract_name \in DOMAIN m.addresses
                        THEN m.addresses[f.contract_name]
                        ELSE f.contract_address
         IN Advance([m EXCEPT
                       !.storage = Put(@, address,
                                       Put(StorageOf(m, address), ins.offset, Peek(f, 1))),
                       !.stats.storage_writes = @ + 1],
                    PopN(f, 1))

OpSTORE_STATE(m, f, ins) ==
    IF Len(f.stack) < 1
    THEN PopFails(m, f, 1)
    ELSE Advance([m EXCEPT
                    !.storage = Put(@, f.contract_address,
                                    Put(StorageOf(m, f.contract_address),
                                        ins.offset, Peek(f, 1))),
                    !.stats.storage_writes = @ + 1],
                 PopN(f, 1))

OpLOAD_STATE(m, f, ins) ==
    LET slots == StorageOf(m, f.contract_address)
        value == IF ins.offset \in DOMAIN slots THEN slots[ins.offset] ELSE NoneV
    IN Advance([m EXCEPT !.stats.storage_reads = @ + 1],
               [f EXCEPT !.stack = Append(@, value)])

\* No value of the model is a dict or a list (literals and the arguments the
\* host passes are scalars), so isinstance(obj, dict) and isinstance(obj, list)
\* are false in the member and index instructions.
OpSTORE_MEMBER(m, f, ins) ==
    IF Len(f.stack) < 2
    THEN PopFails(m, f, 2)
    ELSE Raise(SetTop(m, PopN(f, 2)), "VMError", "Cannot store member " \o ins.member \o " in non-object value")

OpLOAD_MEMBER(m, f, ins) ==
    IF Len(f.stack) < 1
    THEN PopFails(m, f, 1)
    ELSE LET obj == Peek(f, 1)
             f1 == PopN(f, 1)
             state_variables == m.contracts[f.contract_name].state_variables
             slots == StorageOf(m, f.contract_address)
         IN IF PyEq(obj, StrV("self"))
            THEN IF ins.member \in DOMAIN state_variables
                 THEN LET offset == state_variables[ins.member].offset
                          value == IF offset \in DOMAIN slots THEN slots[offset] ELSE NoneV
                      IN Advance([m EXCEPT !.stats.storage_reads = @ + 1],
                                 [f1 EXCEPT !.stack = Append(@, value)])
                 ELSE Raise(SetTop(m, f1), "VMError", "State variable " \o ins.member \o " not found")
            ELSE Raise(SetTop(m, f1), "VMError", "Cannot load member " \o ins.member \o " from non-object value")

\* str(v) as an f-string formats it; the indexes the programs use are ints.
PyStr(v) ==
    CASE v.t = "int" -> ToString(v.n)
      [] v.t = "bool" -> IF v.n = 1 THEN "True" ELSE "False"
      [] v.t = "none" -> "None"
      [] v.t = "str" -> v.s
      [] OTHER -> ToString(v.n) \o "/" \o ToString(v.d)

OpLOAD_INDEX(m, f, ins) ==
    IF Len(f.stack) < 2
    THEN PopFails(m, f, 2)
    ELSE Raise(SetTop(m, PopN(f, 2)), "VMError",
               "Cannot load index " \o PyStr(Peek(f, 1)) \o " from object")

\* The arguments of CALL and EMIT: args.insert(0, pop()) leaves them in the
\* order they were pushed.
PoppedArgs(f, n) == SubSeq(f.stack, Len(f.stack) - n + 1, Len(f.stack))

\* OpCALL, were the arguments collected with args.append(pop()): the callee
\* gets the last argument first.
OpCALLLastFirst(m, f, ins) ==
    IF Len(f.stack) < ins.args_count
    THEN PopFails(m, f, ins.args_count)
    ELSE LET args == [k \in 1..ins.args_count |-> Peek(f, k)]
             f1 == PopN(f, ins.args_count)
         IN IF ins.function = "print"
            THEN Advance(m, [f1 EXCEPT !.stack = Append(@, NoneV)])
            ELSE IF ins.function \in DOMAIN m.contracts[f.contract_name].functions
            THEN EnterFunction(SetTop(m, f1), f.contract_name, ins.function, args,
                               f.contract_address, 0)
            ELSE Raise(SetTop(m, f1), "VMError", "Function " \o ins.function \o " not found")

OpCALL(m, f, ins) ==
    IF Len(f.stack) < ins.args_count
    THEN PopFails(m, f, ins.args_count)
    ELSE LET args == PoppedArgs(f, ins.args_count)
             f1 == PopN(f, ins.args_count)
         IN IF ins.function = "print"
            THEN Advance(m, [f1 EXCEPT !.stack = Append(@, NoneV)])
            ELSE IF ins.function \in DOMAIN m.contracts[f.contract_name].functions
            THEN EnterFunction(SetTop(m, f1), f.contract_name, ins.function, args,
                               f.contract_address, 0)
            ELSE Raise(SetTop(m, f1), "VMError", "Function " \o ins.function \o " not found")

OpRETURN(m, f, ins) ==
    IF PyEq(ins.value, StrV("stack"))
    THEN Return(m, IF f.stack # << >> THEN Peek(f, 1) ELSE NoneV)
    ELSE Return(m, ins.value)

\* JumpTarget, were the offset counted from the instruction after the jump.
JumpTargetFromNext(i, offset) == i + 1 + offset

\* The index the loop continues at after a taken jump at index i.
JumpTarget(i, offset) == i + offset

OpJUMP(m, f, ins) == SetTop(m, [f EXCEPT !.pc = JumpTarget(f.pc, ins.offset)])

OpJUMP_IF_FALSE(m, f, ins) ==
    IF Len(f.stack) < 1
    THEN PopFails(m, f, 1)
    ELSE IF ~Truthy(Peek(f, 1))
    THEN SetTop(m, [PopN(f, 1) EXCEPT !.pc = JumpTarget(f.pc, ins.offset)])
    ELSE Advance(m, PopN(f, 1))

OpREQUIRE(m, f, ins) ==
    IF Len(f.stack) < 1
    THEN PopFails(m, f, 1)
    ELSE IF ~Truthy(Peek(f, 1))
    THEN Raise(SetTop(m, PopN(f, 1)), "VMError", ins.message)
    ELSE Advance(m, PopN(f, 1))

LogEntry(contract, address, event, data) ==
    [contract |-> contract, address |-> address, event |-> event,
     topics |-> << >>, data |-> data]

\* OpEMIT, were the arguments collected with args.append(pop()): the entry's
\* data is in the order popped, the last argument first.
OpEMITAppend(m, f, ins) ==
    IF Len(f.stack) < ins.args_count
    THEN PopFails(m, f, ins.args_count)
    ELSE Advance([m EXCEPT !.logs = Append(@, LogEntry(f.contract_name, f.contract_address,
                                               ins.event,
                                               [i \in 1..ins.args_count |->
                                                   f.stack[Len(f.stack) + 1 - i]]))],
                 PopN(f, ins.args_count))

OpEMIT(m, f, ins) ==
    IF Len(f.stack) < ins.args_count
    THEN PopFails(m, f, ins.args_count)
    ELSE Advance([m EXCEPT !.logs = Append(@, LogEntry(f.contract_name, f.contract_address,
                                                       ins.event,
                                                       PoppedArgs(f, ins.args_count)))],
                 PopN(f, ins.args_count))

BinaryOps == {"ADD", "SUB", "MUL", "DIV", "EQ", "NEQ", "LT", "GT", "LTE", "GTE"}

\* b = pop(), a = pop(), push(a <op> b)
BinaryResult(op, a, b) ==
    CASE op = "ADD" -> PyAdd(a, b)
      [] op = "SUB" -> PySub(a, b)
      [] op = "MUL" -> PyMul(a, b)
      [] op = "DIV" -> PyDiv(a, b)
      [] op = "EQ" -> PyOk(BoolV(PyEq(a, b)))
      [] op = "NEQ" -> PyOk(BoolV(~PyEq(a, b)))
      [] op = "LT" -> PyLess(a, b)
      [] op = "GT" -> PyLess(b, a)
      [] op = "LTE" -> PyLessEq(a, b)
      [] op = "GTE" -> PyLessEq(b, a)

OpBinary(m, f, ins) ==
    IF Len(f.stack) < 2
    THEN PopFails(m, f, 2)
    ELSE LET b == Peek(f, 1)
             a == Peek(f, 2)
             f1 == PopN(f, 2)
         IN IF ins.op = "DIV" /\ PyEq(b, IntV(0))
            THEN Raise(SetTop(m, f1), "VMError", "Division by zero")
            ELSE LET r == BinaryResult(ins.op, a, b)
                 IN IF r.ok
                    THEN Advance(m, [f1 EXCEPT !.stack = Append(@, r.v)])
                    ELSE Raise(SetTop(m, f1), "TypeError", "unsupported operand type")

OpNEG(m, f, ins) ==
    IF Len(f.stack) < 1
    THEN PopFails(m, f, 1)
    ELSE IF PyNeg(Peek(f, 1)).ok
    THEN Advance(m, [PopN(f, 1) EXCEPT !.stack = Append(@, PyNeg(Peek(f, 1)).v)])
    ELSE Raise(SetTop(m, PopN(f, 1)), "TypeError", "bad operand type for unary -")

OpNOT(m, f, ins) ==
    IF Len(f.stack) < 1
    THEN PopFails(m, f, 1)
    ELSE Advance(m, [PopN(f, 1) EXCEPT !.stack = Append(@, BoolV(~Truthy(Peek(f, 1))))])

OpUnknown(m, f, ins) == Raise(m, "VMError", "Unknown opcode: " \o ins.op)

\* The if/elif chain of _execute_code.
Dispatch(m, f, ins) ==
    CASE ins.op = "PUSH" -> OpPUSH(m, f, ins)
      [] ins.op = "POP" -> OpPOP(m, f, ins)
      [] ins.op = "STORE_LOCAL" -> OpSTORE_LOCAL(m, f, ins)
      [] ins.op = "LOAD_LOCAL" -> OpLOAD_LOCAL(m, f, ins)
      [] ins.op = "STORE_STATE" -> OpSTORE_STATE(m, f, ins)
      [] ins.op = "LOAD_STATE" -> OpLOAD_STATE(m, f, ins)
      [] ins.op = "STORE_MEMBER" -> OpSTORE_MEMBER(m, f, ins)
      [] ins.op = "LOAD_MEMBER" -> OpLOAD_MEMBER(m, f, ins)
      [] ins.op = "LOAD_INDEX" -> OpLOAD_INDEX(m, f, ins)
      [] ins.op = "CALL" -> OpCALL(m, f, ins)
      [] ins.op = "RETURN" -> OpRETURN(m, f, ins)
      [] ins.op = "JUMP" -> OpJUMP(m, f, ins)
      [] ins.op = "JUMP_IF_FALSE" -> OpJUMP_IF_FALSE(m, f, ins)
      [] ins.op = "REQUIRE" -> OpREQUIRE(m, f, ins)
      [] ins.op = "EMIT" -> OpEMIT(m, f, ins)
      [] ins.op \in BinaryOps -> OpBinary(m, f, ins)
      [] ins.op = "NEG" -> OpNEG(m, f, ins)
      [] ins.op = "NOT" -> OpNOT(m, f, ins)
      [] OTHER -> OpUnknown(m, f, ins)

\* The code the running frame executes: function_data["code"].
CodeOf(m, f) == m.contracts[f.contract_name].functions[f.function_name].code

\* ExecuteStep, were an instruction counted once it has run: one that raises
\* is not counted.
ExecuteStepCountingAfter(m) ==
    LET f == Top(m)
        code == CodeOf(m, f)
    IN IF f.pc >= Len(code)
       THEN Return(m, IF f.stack # << >> THEN Peek(f, 1) ELSE NoneV)
       ELSE LET after == Dispatch(m, f, code[f.pc + 1]) IN
            IF after.last.outcome \notin {"ok", "running"}
            THEN after
            ELSE [after EXCEPT !.stats.instructions_executed = @ + 1,
                               !.stats.gas_used = @ + 1]

\* One iteration of the while loop of _execute_code in the running frame, or,
\* with the index past the end of the code, the return that follows the loop.
ExecuteStep(m) ==
    LET f == Top(m)
        code == CodeOf(m, f)
    IN IF f.pc >= Len(code)
       THEN Return(m, IF f.stack # << >> THEN Peek(f, 1) ELSE NoneV)
       ELSE Dispatch([m EXCEPT !.stats.instructions_executed = @ + 1,
                               !.stats.gas_used = @ + 1],
                     f, code[f.pc + 1])

\* ------------------------------------------------------------ AST builders
\* The node shapes the parser builds (src/parser.py) and the compiler reads.
TypeNode(name) == Node("TYPE", [name |-> name], << >>)

Param(name, type) == Node("PARAM", [name |-> name], << TypeNode(type) >>)

Literal(value) == Node("LITERAL", [value |-> value], << >>)

Identifier(name) == Node("IDENTIFIER", [name |-> name], << >>)

MemberAccess(obj, member) == Node("MEMBER_ACCESS", [member |-> member], << obj >>)

IndexAccess(obj, index) == Node("INDEX_ACCESS", << >>, << obj, index >>)

CallExpr(function, args) == Node("CALL_EXPR", [function |-> function], args)

BinaryExpr(operator, left, right) ==
    Node("BINARY_EXPR", [operator |-> operator], << left, right >>)

Block(stmts) == Node("BLOCK", << >>, stmts)

VarDecl(name, type) == Node("VAR_DECLARATION", [name |-> name], << TypeNode(type) >>)

VarDeclInit(name, type, init) ==
    Node("VAR_DECLARATION", [name |-> name], << TypeNode(type), init >>)

Assignment(left, right) == Node("ASSIGNMENT", << >>, << left, right >>)

IfStmt(condition, if_block) == Node("IF_STMT", << >>, << condition, if_block >>)

IfElseStmt(condition, if_block, else_block) ==
    Node("IF_STMT", << >>, << condition, if_block, else_block >>)

ReturnStmt(expr) == Node("RETURN_STMT", << >>, << expr >>)

ReturnVoid == Node("RETURN_STMT", << >>, << >>)

RequireStmt(condition, message) ==
    Node("REQUIRE_STMT", [message |-> message], << condition >>)

EmitStmt(event, args) == Node("EMIT_STMT", [event |-> event], args)

Function(name, params, body) ==
    Node("FUNCTION", [name |-> name, is_view |-> FALSE, is_private |-> FALSE],
         Append(params, body))

FunctionReturning(name, params, return_type, body) ==
    Node("FUNCTION",
         [name |-> name, is_view |-> FALSE, is_private |-> FALSE,
          return_type |-> TypeNode(return_type)],
         Append(params, body))

Constructor(params, body) == Node("CONSTRUCTOR", << >>, Append(params, body))

State(vars) == Node("STATE", << >>, vars)

Event(name, params) == Node("EVENT", [name |-> name], params)

Contract(name, members) == Node("CONTRACT", [name |-> name], members)

Interface(name) == Node("INTERFACE", [name |-> name], << >>)

Struct(name) == Node("STRUCT", [name |-> name], << >>)

Enum(name, values) == Node("ENUM", [name |-> name], values)

WhileStmt(condition, body) == Node("WHILE_STMT", << >>, << condition, body >>)

ForStmt(init, condition, update, body) ==
    Node("FOR_STMT", << >>, << init, condition, update, body >>)

ForeachStmt(item, collection, body) ==
    Node("FOREACH_STMT", [item |-> item], << collection, body >>)

AssertStmt(condition) == Node("ASSERT_STMT", << >>, << condition >>)

RevertStmt(message) == Node("REVERT_STMT", [message |-> message], << >>)

TryCatchStmt(try_block, catch_block) ==
    Node("TRY_CATCH_STMT", << >>, << try_block, catch_block >>)

Program(declarations) == Node("PROGRAM", << >>, declarations)

\* ------------------------------------------------------- the programs run
\* contract Bank {
\*   state { x: int; y: int; }
\*   event Then(); event Else(); event After(); event E(v: int);
\*   event P(a: int, b: int);
\*   constructor() { x = 7; }
\*   function set(v: int) { x = v; emit P(v, 9); y = 1 / v; }
\*   function get() returns int { return x; }
\*   function branch(c: int) { if (c) { emit Then(); } else { emit Else(); } emit After(); }
\*   function outer(v: int) returns int { emit E(1); return inner(v) + 1; }
\*   function inner(v: int) returns int { emit E(2); require(v, "neg"); return v; }
\*   function keep(a: int) returns int { let t: int = 5; return a; }
\*   function rem(a: int) returns int { return a % 2; }
\*   function pair(a: int) returns int { return a + second(a, 5); }
\*   function second(a: int, b: int) returns int { return b; }
\* }
BankContract ==
    Contract("Bank", <<
        State(<< VarDecl("x", "int"), VarDecl("y", "int") >>),
        Event("Then", << >>),
        Event("Else", << >>),
        Event("After", << >>),
        Event("E", << Param("v", "int") >>),
        Event("P", << Param("a", "int"), Param("b", "int") >>),
        Constructor(<< >>, Block(<< Assignment(Identifier("x"), Literal(IntV(7))) >>)),
        Function("set", << Param("v", "int") >>, Block(<<
            Assignment(Identifier("x"), Identifier("v")),
            EmitStmt("P", << Identifier("v"), Literal(IntV(9)) >>),
            Assignment(Identifier("y"),
                       BinaryExpr("/", Literal(IntV(1)), Identifier("v"))) >>)),
        FunctionReturning("get", << >>, "int", Block(<< ReturnStmt(Identifier("x")) >>)),
        Function("branch", << Param("c", "int") >>, Block(<<
            IfElseStmt(Identifier("c"),
                       Block(<< EmitStmt("Then", << >>) >>),
                       Block(<< EmitStmt("Else", << >>) >>)),
            EmitStmt("After", << >>) >>)),
        FunctionReturning("outer", << Param("v", "int") >>, "int", Block(<<
            EmitStmt("E", << Literal(IntV(1)) >>),
            ReturnStmt(BinaryExpr("+", CallExpr("inner", << Identifier("v") >>),
                                  Literal(IntV(1)))) >>)),
        FunctionReturning("inner", << Param("v", "int") >>, "int", Block(<<
            EmitStmt("E", << Literal(IntV(2)) >>),
            RequireStmt(Identifier("v"), "neg"),
            ReturnStmt(Identifier("v")) >>)),
        FunctionReturning("keep", << Param("a", "int") >>, "int", Block(<<
            VarDeclInit("t", "int", Literal(IntV(5))),
            ReturnStmt(Identifier("a")) >>)),
        FunctionReturning("rem", << Param("a", "int") >>, "int", Block(<<
            ReturnStmt(BinaryExpr("%", Identifier("a"), Literal(IntV(2)))) >>)),
        FunctionReturning("pair", << Param("a", "int") >>, "int", Block(<<
            ReturnStmt(BinaryExpr("+", Identifier("a"),
                                  CallExpr("second", << Identifier("a"),
                                                        Literal(IntV(5)) >>))) >>)),
        FunctionReturning("second", << Param("a", "int"), Param("b", "int") >>, "int",
                          Block(<< ReturnStmt(Identifier("b")) >>))
    >>)

\* The SimpleToken example of vm.py, with one of its three fields:
\* contract SimpleToken {
\*   state { name: string; }
\*   constructor(name: string) { self.name = name; }
\*   function getName() view returns string { return self.name; }
\* }
SimpleTokenContract ==
    Contract("SimpleToken", <<
        State(<< VarDecl("name", "string") >>),
        Constructor(<< Param("name", "string") >>, Block(<<
            Assignment(MemberAccess(Identifier("self"), "name"), Identifier("name")) >>)),
        FunctionReturning("getName", << >>, "string", Block(<<
            ReturnStmt(MemberAccess(Identifier("self"), "name")) >>))
    >>)

\* A contract without a constructor whose functions fail on the VM:
\* contract Probe {
\*   state { x: int; }
\*   function pick(z: bogus, b: int) returns int { return b; }
\*   function probe(k: int) returns int { if (k) { return x.m; } return x[k]; }
\* }
\* The compiler rejects the parameter z (unknown type) and keeps b.
ProbeContract ==
    Contract("Probe", <<
        State(<< VarDecl("x", "int") >>),
        FunctionReturning("pick", << Param("z", "bogus"), Param("b", "int") >>, "int",
                          Block(<< ReturnStmt(Identifier("b")) >>)),
        FunctionReturning("probe", << Param("k", "int") >>, "int", Block(<<
            IfStmt(Identifier("k"),
                   Block(<< ReturnStmt(MemberAccess(Identifier("x"), "m")) >>)),
            ReturnStmt(IndexAccess(Identifier("x"), Identifier("k"))) >>))
    >>)

\* The source programs the host compiles and loads.
Programs ==
    << Program(<< BankContract >>), Program(<< SimpleTokenContract, ProbeContract >>) >>

\* The artifact of each program: compile() on a fresh Compiler.
Artifacts == [p \in 1..Len(Programs) |-> Compile(CompilerReset, Programs[p]).bytecode]

\* The error list compile() leaves for each program.
CompileErrors == [p \in 1..Len(Programs) |-> Compile(CompilerReset, Programs[p]).errors]

\* Names and arguments the host calls the VM with.
ContractNames == {"Bank", "SimpleToken", "Probe", "Missing"}

FunctionNames ==
    {"set", "get", "branch", "outer", "inner", "keep", "rem", "pair", "second", "getName",
     "pick", "probe", "missing"}

ArgLists == { << >>, << IntV(0) >>, << IntV(2) >> }

Addresses == 1..NumAddr

\* -------------------------------------------------------------------- lexer
\* Source text is a sequence of characters (strings of length one); "" is the
\* ch of a Lexer that has read past the end. Characters of the sources below,
\* and the ones next_token tells apart.
Letters ==
    {"a", "b", "c", "d", "e", "f", "g", "h", "i", "j", "k", "l", "m",
     "n", "o", "p", "q", "r", "s", "t", "u", "v", "w", "x", "y", "z"}

IsSpace(ch) == ch \in {" ", "\n", "\t", "\r"}

IsAlpha(ch) == ch \in Letters

IsDigit(ch) == ch \in {"0", "1", "2", "3", "4", "5", "6", "7", "8", "9"}

IsAlnum(ch) == IsAlpha(ch) \/ IsDigit(ch)

\* self.keywords
Keywords ==
       << "f", "u", "n", "c", "t", "i", "o", "n" >> :> "FUNCTION" @@
       << "c", "o", "n", "t", "r", "a", "c", "t" >> :> "CONTRACT" @@
       << "p", "r", "a", "g", "m", "a" >> :> "PRAGMA" @@
       << "l", "e", "t" >> :> "LET" @@
       << "t", "r", "u", "e" >> :> "TRUE" @@
       << "f", "a", "l", "s", "e" >> :> "FALSE" @@
       << "i", "f" >> :> "IF" @@
       << "e", "l", "s", "e" >> :> "ELSE" @@
       << "w", "h", "i", "l", "e" >> :> "WHILE" @@
       << "f", "o", "r" >> :> "FOR" @@
       << "f", "o", "r", "e", "a", "c", "h" >> :> "FOREACH" @@
       << "r", "e", "t", "u", "r", "n" >> :> "RETURN" @@
       << "i", "n", "t", "e", "r", "f", "a", "c", "e" >> :> "INTERFACE" @@
       << "s", "t", "r", "u", "c", "t" >> :> "STRUCT" @@
       << "e", "n", "u", "m" >> :> "ENUM" @@
       << "s", "t", "a", "t", "e" >> :> "STATE" @@
       << "v", "i", "e", "w" >> :> "VIEW" @@
       << "p", "r", "i", "v", "a", "t", "e" >> :> "PRIVATE" @@
       << "c", "o", "n", "s", "t", "r", "u", "c", "t", "o", "r" >> :> "CONSTRUCTOR" @@
       << "e", "v", "e", "n", "t" >> :> "EVENT" @@
       << "r", "e", "q", "u", "i", "r", "e" >> :> "REQUIRE" @@
       << "a", "s", "s", "e", "r", "t" >> :> "ASSERT" @@
       << "r", "e", "v", "e", "r", "t" >> :> "REVERT" @@
       << "e", "m", "i", "t" >> :> "EMIT" @@
       << "t", "r", "y" >> :> "TRY" @@
       << "c", "a", "t", "c", "h" >> :> "CATCH" @@
       << "s", "e", "l", "f" >> :> "SELF" @@
       << "i", "n", "t" >> :> "INT_TYPE" @@
       << "u", "i", "n", "t" >> :> "UINT_TYPE" @@
       << "b", "o", "o", "l" >> :> "BOOL_TYPE" @@
       << "a", "d", "d", "r", "e", "s", "s" >> :> "ADDRESS_TYPE" @@
       << "s", "t", "r", "i", "n", "g" >> :> "STRING_TYPE" @@
       << "b", "y", "t", "e", "s" >> :> "BYTES_TYPE" @@
       << "h", "a", "s", "h" >> :> "HASH_TYPE" @@
       << "a", "r", "r", "a", "y" >> :> "ARRAY_TYPE" @@
       << "m", "a", "p" >> :> "MAP_TYPE"

\* input[a:b]
Slice(input, a, b) ==
    SubSeq(input, a + 1, IF b > Len(input) THEN Len(input) ELSE b)

Token(token_type, literal, line, column) ==
    [token_type |-> token_type, literal |-> literal, line |-> line, column |-> column]

ReadChar(lx) ==
    LET ch == IF lx.read_position >= Len(lx.input) THEN "" ELSE lx.input[lx.read_position + 1]
    IN [lx EXCEPT !.ch = ch,
                  !.position = lx.read_position,
                  !.read_position = lx.read_position + 1,
                  !.line = IF ch = "\n" THEN @ + 1 ELSE @,
                  !.column = IF ch = "\n" THEN 0 ELSE @ + 1]

\* Lexer(input_text): the fields as __init__ sets them, then its read_char().
NewLexer(input_text) ==
    ReadChar([input |-> input_text, position |-> 0, read_position |-> 0, ch |-> "",
              line |-> 1, column |-> 1])

\* The value of the variable lexer while the host has made no Lexer: a Lexer
\* always has read_position > 0.
NoLexer ==
    [input |-> << >>, position |-> 0, read_position |-> 0, ch |-> "", line |-> 1,
     column |-> 1]

PeekChar(lx) ==
    IF lx.read_position >= Len(lx.input) THEN "" ELSE lx.input[lx.read_position + 1]

RECURSIVE SkipWhitespace(_)
SkipWhitespace(lx) ==
    IF IsSpace(lx.ch) THEN Bind(ReadChar(lx), LAMBDA next : SkipWhitespace(next)) ELSE lx

\* while self.ch != '\n' and self.ch != '': self.read_char()
RECURSIVE SkipLine(_)
SkipLine(lx) ==
    IF lx.ch # "\n" /\ lx.ch # ""
    THEN Bind(ReadChar(lx), LAMBDA next : SkipLine(next))
    ELSE lx

\* The loop of a block comment and the two read_char() after it; at the end
\* of the input it returns where it is.
RECURSIVE SkipBlock(_)
SkipBlock(lx) ==
    IF lx.ch = "*" /\ PeekChar(lx) = "/"
    THEN Bind(ReadChar(lx), LAMBDA next : ReadChar(next))
    ELSE IF lx.ch = ""
    THEN lx
    ELSE Bind(ReadChar(lx), LAMBDA next : SkipBlock(next))

SkipComment(lx) ==
    IF lx.ch = "/" /\ PeekChar(lx) = "/"
    THEN SkipLine(lx)
    ELSE IF lx.ch = "/" /\ PeekChar(lx) = "*"
    THEN Bind(ReadChar(lx), LAMBDA slash :
         Bind(ReadChar(slash), LAMBDA star : SkipBlock(star)))
    ELSE lx

RECURSIVE ReadIdentifierChars(_)
ReadIdentifierChars(lx) ==
    IF IsAlnum(lx.ch) \/ lx.ch = "_"
    THEN Bind(ReadChar(lx), LAMBDA next : ReadIdentifierChars(next))
    ELSE lx

\* read_identifier(), called on a letter or '_': the lexer after it and the text.
ReadIdentifier(lx) ==
    Bind(ReadIdentifierChars(lx), LAMBDA after :
    [lx |-> after, text |-> Slice(lx.input, lx.position, after.position)])

RECURSIVE ReadDigits(_)
ReadDigits(lx) ==
    IF IsDigit(lx.ch) THEN Bind(ReadChar(lx), LAMBDA next : ReadDigits(next)) ELSE lx

ReadNumber(lx) ==
    Bind(ReadDigits(lx), LAMBDA whole :
    Bind(IF whole.ch = "." /\ IsDigit(PeekChar(whole))
         THEN Bind(ReadChar(whole), LAMBDA dot : ReadDigits(dot))
         ELSE whole, LAMBDA after :
    [lx |-> after, text |-> Slice(lx.input, lx.position, after.position)]))

\* The loop of read_string: a backslash before one of the escapes is skipped
\* together with the character after it.
RECURSIVE ReadStringBody(_)
ReadStringBody(lx) ==
    IF lx.ch # "\"" /\ lx.ch # ""
    THEN Bind(IF lx.ch = "\\" /\ PeekChar(lx) \in {"\"", "\\", "n", "t", "r"}
              THEN ReadChar(lx)
              ELSE lx, LAMBDA escaped :
         Bind(ReadChar(escaped), LAMBDA next : ReadStringBody(next)))
    ELSE lx

ReadString(lx) ==
    Bind(ReadChar(lx), LAMBDA quote :
    Bind(ReadStringBody(quote), LAMBDA body :
    [lx |-> IF body.ch = "" THEN body ELSE ReadChar(body),
     text |-> Slice(lx.input, lx.position + 1, body.position)]))

\* The start of next_token: whitespace, then at most one comment and the
\* whitespace after it. The lexer then stands on the token's first character.
SkipToToken(lx) ==
    Bind(SkipWhitespace(lx), LAMBDA spaced :
    IF spaced.ch = "/" /\ (PeekChar(spaced) = "/" \/ PeekChar(spaced) = "*")
    THEN Bind(SkipComment(spaced), LAMBDA commented : SkipWhitespace(commented))
    ELSE spaced)

\* The token types of the one- and two-character tokens.
TwoCharTypes ==
    << "=", "=" >> :> "EQ" @@ << "-", ">" >> :> "ARROW" @@ << "!", "=" >> :> "NEQ" @@
    << "<", "=" >> :> "LTE" @@ << ">", "=" >> :> "GTE"

OneCharTypes ==
    "=" :> "ASSIGN" @@ "+" :> "PLUS" @@ "-" :> "MINUS" @@ "!" :> "BANG" @@
    "*" :> "ASTERISK" @@ "/" :> "SLASH" @@ "<" :> "LT" @@ ">" :> "GT" @@
    ";" :> "SEMICOLON" @@ ":" :> "COLON" @@ "," :> "COMMA" @@ "(" :> "LPAREN" @@
    ")" :> "RPAREN" @@ "{" :> "LBRACE" @@ "}" :> "RBRACE" @@ "[" :> "LBRACKET" @@
    "]" :> "RBRACKET" @@ "." :> "DOT"

\* FinishToken, were the token returned without reading past its last character.
FinishTokenInPlace(lx, token) == [lx |-> lx, token |-> token]

\* self.read_char(); return token
FinishToken(lx, token) == [lx |-> ReadChar(lx), token |-> token]

\* next_token(): the lexer afterwards and the token returned.
NextToken(lexer0) ==
    Bind(SkipToToken(lexer0), LAMBDA lx :
    LET line == lx.line
        column == lx.column
        pair == << lx.ch, PeekChar(lx) >>
    IN IF pair \in DOMAIN TwoCharTypes
       THEN Bind(ReadChar(lx), LAMBDA second :
            FinishToken(second, Token(TwoCharTypes[pair], pair, line, column)))
       ELSE IF lx.ch \in DOMAIN OneCharTypes
       THEN FinishToken(lx, Token(OneCharTypes[lx.ch], << lx.ch >>, line, column))
       ELSE IF lx.ch = "\""
       THEN Bind(ReadString(lx), LAMBDA string :
            [lx |-> string.lx, token |-> Token("STRING", string.text, line, column)])
       ELSE IF lx.ch = ""
       THEN FinishToken(lx, Token("EOF", << >>, line, column))
       ELSE IF IsAlpha(lx.ch) \/ lx.ch = "_"
       THEN Bind(ReadIdentifier(lx), LAMBDA identifier :
            [lx |-> identifier.lx,
             token |-> Token(IF identifier.text \in DOMAIN Keywords
                             THEN Keywords[identifier.text] ELSE "IDENT",
                             identifier.text, line, column)])
       ELSE IF IsDigit(lx.ch)
       THEN Bind(ReadNumber(lx), LAMBDA number :
            [lx |-> number.lx,
             token |-> Token(IF \E k \in 1..Len(number.text) : number.text[k] = "."
                             THEN "FLOAT" ELSE "INT",
                             number.text, line, column)])
       ELSE FinishToken(lx, Token("ILLEGAL", << lx.ch >>, line, column)))

\* The sources handed to Lexer: every text of up to MaxLen characters over
\* a letter, a digit, the newline, and the characters of comments and strings.
Alphabet == {"a", "1", "\n", "/", "*", "\""}

Sources == UNION {[1..n -> Alphabet] : n \in 0..MaxLen}

VARIABLES
    lexer,   \* the Lexer object
    tokens   \* the list tokenize() has built so far

lxvars == << lexer, tokens >>

\* The host has made the Lexer.
LexerMade == lexer.read_position > 0

\* tokenize() has appended the EOF token and returned.
TokenizeDone == tokens # << >> /\ tokens[Len(tokens)].token_type = "EOF"

\* ------------------------------------------------------------------- parser
\* The members of lexer.TokenType; the parser's TokenType.<name> for any other
\* name raises AttributeError.
LexerTokenTypes ==
    {"EOF", "ILLEGAL", "IDENT", "INT", "STRING", "FLOAT", "ASSIGN", "PLUS", "MINUS",
     "BANG", "ASTERISK", "SLASH", "EQ", "NEQ", "LT", "GT", "LTE", "GTE", "COMMA",
     "SEMICOLON", "COLON", "LPAREN", "RPAREN", "LBRACE", "RBRACE", "LBRACKET",
     "RBRACKET", "DOT", "ARROW", "FUNCTION", "CONTRACT", "PRAGMA", "LET", "TRUE",
     "FALSE", "IF", "ELSE", "WHILE", "FOR", "FOREACH", "RETURN", "INTERFACE",
     "STRUCT", "ENUM", "STATE", "VIEW", "PRIVATE", "CONSTRUCTOR", "EVENT", "REQUIRE",
     "ASSERT", "REVERT", "EMIT", "TRY", "CATCH", "SELF", "INT_TYPE", "UINT_TYPE",
     "BOOL_TYPE", "ADDRESS_TYPE", "STRING_TYPE", "BYTES_TYPE", "HASH_TYPE",
     "ARRAY_TYPE", "MAP_TYPE"}

\* Parser(tokens)
NewParser(token_list) == [tokens |-> token_list, current |-> 0, errors |-> << >>]

\* What a parsing method gives: the parser afterwards, the exception it
\* raised ("" for none) with its message, the value or node it returned.
Parsed(p, exception, message, value, node) ==
    [p |-> p, exception |-> exception, message |-> message, value |-> value, node |-> node]

NoNode == Node("", << >>, << >>)

\* _peek(offset); tokens[-1] past the end.
ParserPeek(p, offset) ==
    IF p.current + offset >= Len(p.tokens)
    THEN p.tokens[Len(p.tokens)]
    ELSE p.tokens[p.current + offset + 1]

\* _is_at_end(): self._peek().type == TokenType.EOF. Reading an attribute the
\* token object does not have raises AttributeError.
IsAtEnd(p) ==
    LET token == ParserPeek(p, 0) IN
    IF "type" \in DOMAIN token
    THEN Parsed(p, "", "", token.type = "EOF", NoNode)
    ELSE Parsed(p, "AttributeError", "'Token' object has no attribute 'type'", FALSE, NoNode)

\* _check(token_type)
Check(p, token_type) ==
    LET at_end == IsAtEnd(p) IN
    IF at_end.exception # "" \/ at_end.value
    THEN [at_end EXCEPT !.value = FALSE]
    ELSE Parsed(p, "", "", ParserPeek(p, 0).type = token_type, NoNode)

\* _advance()
ParserAdvance(p) == [p EXCEPT !.current = @ + 1]

\* _match(*token_types)
RECURSIVE Match(_, _)
Match(p, token_types) ==
    IF token_types = << >>
    THEN Parsed(p, "", "", FALSE, NoNode)
    ELSE LET checked == Check(p, Head(token_types)) IN
         IF checked.exception # ""
         THEN checked
         ELSE IF checked.value
         THEN Parsed(ParserAdvance(p), "", "", TRUE, NoNode)
         ELSE Match(p, Tail(token_types))

\* _parse_pragma, _parse_contract, _parse_interface, _parse_struct and
\* _parse_enum: the first statement of each evaluates TokenType.IDENTIFIER.
ParseDeclaration(p) ==
    IF "IDENTIFIER" \in LexerTokenTypes
    THEN Parsed(p, "", "", FALSE, NoNode)
    ELSE Parsed(p, "AttributeError", "IDENTIFIER", FALSE, NoNode)

\* The while loop of _parse_program; children are the declarations so far.
RECURSIVE ParseDeclarations(_, _)
ParseDeclarations(p, children) ==
    LET at_end == IsAtEnd(p) IN
    IF at_end.exception # ""
    THEN at_end
    ELSE IF at_end.value
    THEN Parsed(p, "", "", FALSE, Node("PROGRAM", << >>, children))
    ELSE LET matched == Match(p, << "CONTRACT", "INTERFACE", "STRUCT", "ENUM" >>) IN
         IF matched.exception # ""
         THEN matched
         ELSE IF matched.value
         THEN LET declaration == ParseDeclaration(matched.p) IN
              IF declaration.exception # ""
              THEN declaration
              ELSE ParseDeclarations(declaration.p, Append(children, declaration.node))
         ELSE IF "value" \in DOMAIN ParserPeek(p, 0)
         THEN Parsed(p, "ParserError", "Unexpected token", FALSE, NoNode)
         ELSE Parsed(p, "AttributeError", "'Token' object has no attribute 'value'",
                     FALSE, NoNode)

\* _parse_program()
ParseProgram(p) ==
    LET pragma == Match(p, << "PRAGMA" >>) IN
    IF pragma.exception # ""
    THEN pragma
    ELSE IF pragma.value
    THEN LET declaration == ParseDeclaration(pragma.p) IN
         IF declaration.exception # ""
         THEN declaration
         ELSE ParseDeclarations(declaration.p, << declaration.node >>)
    ELSE ParseDeclarations(pragma.p, << >>)

\* parse(): a ParserError is recorded and an empty PROGRAM returned; any
\* other exception leaves parse.
Parse(p) ==
    LET program == ParseProgram(p) IN
    IF program.exception = "ParserError"
    THEN Parsed([program.p EXCEPT !.errors = Append(@, program.message)], "", "", FALSE,
                Node("PROGRAM", << >>, << >>))
    ELSE program

VARIABLES
    parser,  \* the Parser object
    parsed   \* what parser.parse() gave the host: a node or an exception

psvars == << parser, parsed >>

frontvars == << lxvars, psvars >>

\* ------------------------------------------------------- compiler under test
VARIABLES
    ast,       \* the PROGRAM AST handed to compile() last
    compiler,  \* the Compiler object
    cphase,    \* "source" before compile(ast) has run, "compiled" after it,
               \* "reset" after a reset() that follows, "recompiled" after a
               \* second compile that follows the reset, "again" after a second
               \* compile without a reset
    returned   \* per compile call: its AST, the artifact it returned as that
               \* dict reads now, and the error list read after the call

ccvars == << ast, compiler, cphase, returned >>

vars == << vmvars, ccvars, frontvars >>

\* The front end and the compiler before they are used.
FrontIdle ==
    /\ lexer = NoLexer
    /\ tokens = << >>
    /\ parser = NewParser(<< >>)
    /\ parsed = [called |-> FALSE, exception |-> "", node |-> NoNode]

CompilerIdle ==
    /\ ast = Program(<< >>)
    /\ compiler = CompilerReset
    /\ cphase = "source"
    /\ returned = << >>

\* ------------------------------------------------------------ VM operations
Idle == pystack = << >>

\* The fields of the GrishexVM object in the VM record m.
Fields(m) ==
    [contracts |-> m.contracts, contract_instances |-> m.contract_instances,
     storage |-> m.storage, logs |-> m.logs, addresses |-> m.addresses,
     call_stack |-> m.call_stack, stats |-> m.stats]

\* The fields of GrishexVM(): __init__ is reset() on the new object.
NewMachine ==
    [contracts |-> EmptyDict, contract_instances |-> << >>, storage |-> EmptyDict,
     logs |-> << >>, addresses |-> EmptyDict, call_stack |-> << >>, stats |-> ZeroStats]

\* A top-level call of method op on a VM with the fields before.
HostCall(op, before) == [op |-> op, before |-> before]

VMInit ==
    /\ contracts = EmptyDict
    /\ contract_instances = << >>
    /\ storage = EmptyDict
    /\ logs = << >>
    /\ addresses = EmptyDict
    /\ call_stack = << >>
    /\ stats = ZeroStats
    /\ pystack = << >>
    /\ last = Outcome("none", "", NoneV, 0)
    /\ ncalls = 0
    /\ host = HostCall("__init__", NewMachine)
    /\ deployed = EmptyDict

Init ==
    /\ VMInit
    /\ CompilerIdle
    /\ FrontIdle

Calling == [Machine EXCEPT !.last = Outcome("running", "", NoneV, 0)]

\* deploy_contract(contract_name) on m returns within the call: the contract is
\* loaded and has no constructor to run.
ReturnsAtOnce(m, contract_name) ==
    /\ contract_name \in DOMAIN m.contracts
    /\ "constructor" \notin DOMAIN m.contracts[contract_name].functions

\* The running frame is a constructor at its return: deploy_contract, which
\* called it, returns its address next.
ReturnsToDeploy(m) ==
    /\ Len(m.pystack) >= 2
    /\ m.pystack[Len(m.pystack) - 1].kind = "deploy"
    /\ \/ Top(m).pc >= Len(CodeOf(m, Top(m)))
       \/ CodeOf(m, Top(m))[Top(m).pc + 1].op = "RETURN"

\* load_contract(bytecode) with the artifact of one of the programs.
LoadContract ==
    /\ Idle
    /\ ncalls < MaxCalls
    /\ \E p \in 1..Len(Programs) :
        /\ contracts' = [name \in (DOMAIN contracts) \cup (DOMAIN Artifacts[p].contracts) |->
                            IF name \in DOMAIN Artifacts[p].contracts
                            THEN Artifacts[p].contracts[name]
                            ELSE contracts[name]]
        /\ last' = Outcome("ok", "", NoneV, 0)
        /\ ncalls' = ncalls + 1
        /\ host' = HostCall("load_contract", Fields(Machine))
        /\ UNCHANGED << contract_instances, storage, logs, addresses, call_stack, stats,
                        pystack, deployed, ccvars, frontvars >>

\* deploy_contract(contract_name, constructor_args), up to the first
\* instruction of the constructor.
DeployContract ==
    /\ Idle
    /\ ncalls < MaxCalls
    /\ \E contract_name \in ContractNames, args \in ArgLists, rnd \in Addresses :
        /\ Becomes(DeployContractCall(Calling, contract_name, args, rnd))
        /\ ncalls' = ncalls + 1
        /\ host' = HostCall("deploy_contract", Fields(Machine))
        /\ deployed' = IF ReturnsAtOnce(Machine, contract_name)
                       THEN Put(deployed, contract_name, rnd)
                       ELSE deployed
        /\ UNCHANGED << ccvars, frontvars >>

\* execute_function(contract_name, function_name, args, contract_address), up
\* to the first instruction of the function; address 0 is "not given".
\* random.randint is drawn only by a call that reaches deploy_contract.
ExecuteFunction ==
    /\ Idle
    /\ ncalls < MaxCalls
    /\ \E contract_name \in ContractNames, function_name \in FunctionNames,
          args \in ArgLists, contract_address \in {0} \cup Addresses :
      \E rnd \in IF /\ contract_name \in DOMAIN contracts
                    /\ function_name \in DOMAIN contracts[contract_name].functions
                    /\ contract_address = 0
                    /\ contract_name \notin DOMAIN addresses
                    /\ FirstInstanceOf(contract_instances, contract_name) = 0
                 THEN Addresses
                 ELSE {1} :
        /\ Becomes(EnterFunction(Calling, contract_name, function_name, args,
                                 contract_address, rnd))
        /\ ncalls' = ncalls + 1
        /\ host' = HostCall("execute_function", Fields(Machine))
        /\ deployed' = IF /\ ReturnsAtOnce(Machine, contract_name)
                          /\ function_name \in DOMAIN contracts[contract_name].functions
                          /\ contract_address = 0
                          /\ contract_name \notin DOMAIN addresses
                          /\ FirstInstanceOf(contract_instances, contract_name) = 0
                       THEN Put(deployed, contract_name, rnd)
                       ELSE deployed
        /\ UNCHANGED << ccvars, frontvars >>

\* One instruction of the running frame.
Step ==
    /\ ~Idle
    /\ Becomes(ExecuteStep(Machine))
    /\ deployed' = IF ReturnsToDeploy(Machine)
                   THEN Put(deployed, pystack[Len(pystack) - 1].contract_name,
                            pystack[Len(pystack) - 1].address)
                   ELSE deployed
    /\ UNCHANGED << ncalls, host, ccvars, frontvars >>

\* reset()
Reset ==
    /\ Idle
    /\ ncalls < MaxCalls
    /\ Becomes(ResetMachine([Machine EXCEPT !.last = Outcome("ok", "", NoneV, 0)]))
    /\ ncalls' = ncalls + 1
    /\ host' = HostCall("reset", Fields(Machine))
    /\ deployed' = EmptyDict
    /\ UNCHANGED << ccvars, frontvars >>

Next == LoadContract \/ DeployContract \/ ExecuteFunction \/ Step \/ Reset

Spec == Init /\ [][Next]_vars

\* ------------------------------------------------- compiling function ASTs
\* compile() on a fresh Compiler, for every program
\*   contract T { state { x: int; } event E(); <member> }
\* whose member is a constructor, a function or a function returning int, with
\* up to MaxParams parameters p0, p1, ... and a body of up to MaxBody of the
\* statements below. The only STORE_LOCAL these bodies compile to is a let's.
MemberKinds == {"constructor", "function", "typed"}

ParamList(n) == [i \in 1..n |-> Param("p" \o ToString(i - 1), "int")]

Statements ==
    { VarDeclInit("t", "int", Literal(IntV(1))),
      VarDecl("u", "int"),
      Assignment(Identifier("x"), Literal(IntV(2))),
      ReturnStmt(Literal(IntV(3))),
      ReturnVoid,
      IfStmt(Identifier("x"), Block(<< ReturnStmt(Literal(IntV(4))) >>)),
      IfElseStmt(Identifier("x"), Block(<< ReturnStmt(Literal(IntV(4))) >>),
                 Block(<< EmitStmt("E", << >>) >>)),
      EmitStmt("E", << >>) }

Bodies == UNION {[1..n -> Statements] : n \in 0..MaxBody}

Member(kind, n, body) ==
    CASE kind = "constructor" -> Constructor(ParamList(n), Block(body))
      [] kind = "function" -> Function("f", ParamList(n), Block(body))
      [] OTHER -> FunctionReturning("f", ParamList(n), "int", Block(body))

\* Programs for the state-variable numbering: declarations x: int, y: bool,
\* x: bogus in up to MaxVars places of a state block; one contract with two
\* state blocks, or two contracts with one block each.
StateDecls == { VarDecl("x", "int"), VarDecl("y", "bool"), VarDecl("x", "bogus") }

DeclLists == UNION {[1..n -> StateDecls] : n \in 0..MaxVars}

StateInputs ==
    { Program(<< Contract("T", << State(d1), Event("E", << >>), State(d2) >>) >>) :
        d1 \in DeclLists, d2 \in DeclLists }
    \cup
    { Program(<< Contract("T", << State(d1) >>), Contract("U", << State(d2) >>) >>) :
        d1 \in DeclLists, d2 \in DeclLists }

\* Programs for the parameter slots: function f(<params>) returns int
\* { return <q>; } with up to MaxParams parameters of valid or unknown type.
ParamDecls ==
    { Param("p0", "int"), Param("p1", "int"), Param("p0", "bogus"), Param("p1", "bogus") }

ParamLists == UNION {[1..n -> ParamDecls] : n \in 0..MaxParams}

ParamInputs ==
    { Program(<< Contract("T", << FunctionReturning("f", ps, "int",
                                      Block(<< ReturnStmt(Identifier(q)) >>)) >>) >>) :
        ps \in ParamLists, q \in {"p0", "p1"} }

\* Programs with one statement of each kind as the body of a function:
\*   contract T { state { x: int; } event E(); event P(v: int);
\*                function f(p0: int) { <statement> } }
SingleStatements ==
    { Literal(IntV(1)),
      CallExpr("print", << Identifier("p0") >>),
      BinaryExpr("+", Identifier("p0"), Identifier("x")),
      VarDeclInit("t", "int", Identifier("p0")),
      VarDecl("u", "int"),
      Assignment(Identifier("x"), Identifier("p0")),
      Assignment(Identifier("p0"), Literal(IntV(2))),
      Assignment(MemberAccess(Identifier("self"), "x"), Literal(IntV(2))),
      Assignment(IndexAccess(Identifier("x"), Literal(IntV(0))), Literal(IntV(2))),
      IfStmt(Identifier("p0"), Block(<< Assignment(Identifier("x"), Literal(IntV(2))) >>)),
      IfElseStmt(Identifier("p0"), Block(<< EmitStmt("E", << >>) >>),
                 Block(<< Assignment(Identifier("x"), Literal(IntV(2))) >>)),
      RequireStmt(Identifier("p0"), "m"),
      EmitStmt("E", << >>),
      EmitStmt("P", << Identifier("p0") >>) }

StatementInputs ==
    { Program(<< Contract("T", << State(<< VarDecl("x", "int") >>), Event("E", << >>),
                                  Event("P", << Param("v", "int") >>),
                                  Function("f", << Param("p0", "int") >>,
                                           Block(<< s >>)) >>) >>) :
        s \in SingleStatements }

\* Programs whose function f has the one statement "self;": no symbol named
\* self, a contract named self, a state variable named self.
SelfBody == Function("f", << >>, Block(<< Identifier("self") >>))

SelfInputs ==
    { Program(<< Contract("T", << SelfBody >>) >>),
      Program(<< Contract("self", << SelfBody >>) >>),
      Program(<< Contract("T", << State(<< VarDecl("self", "int") >>), SelfBody >>) >>) }

\* Programs of three top-level declarations: a contract, interface, struct or
\* enum named T, a second one named T or V, and the contract
\*   contract U { state { x: int; } function g() { x = 2; } }
TopLevel(kind, name) ==
    CASE kind = "CONTRACT" ->
           Contract(name, << State(<< VarDecl("x", "int") >>),
                             Function("f", << >>,
                                      Block(<< Assignment(Identifier("x"),
                                                          Literal(IntV(1))) >>)) >>)
      [] kind = "INTERFACE" -> Interface(name)
      [] kind = "STRUCT" -> Struct(name)
      [] OTHER -> Enum(name, << Identifier("A") >>)

TopLevelKinds == {"CONTRACT", "INTERFACE", "STRUCT", "ENUM"}

OtherContract ==
    Contract("U", << State(<< VarDecl("x", "int") >>),
                     Function("g", << >>,
                              Block(<< Assignment(Identifier("x"), Literal(IntV(2))) >>)) >>)

DuplicateInputs ==
    { Program(<< TopLevel(k1, "T"), TopLevel(k2, n2), OtherContract >>) :
        k1 \in TopLevelKinds, k2 \in TopLevelKinds, n2 \in {"T", "V"} }

\* Programs whose function f has the one statement "emit E(<k arguments>);",
\* in a contract that declares event E with n parameters before f, after f,
\* or not at all.
EventParams(n) == [i \in 1..n |-> Param("v" \o ToString(i - 1), "int")]

EmitArgs(k) == [i \in 1..k |-> Literal(IntV(i))]

EmitOrderInputs ==
    { Program(<< Contract("T",
                     (IF place = "before" THEN << Event("E", EventParams(n)) >> ELSE << >>)
                     \o << Function("f", << >>, Block(<< EmitStmt("E", EmitArgs(k)) >>)) >>
                     \o (IF place = "after" THEN << Event("E", EventParams(n)) >> ELSE << >>))
              >>) :
        place \in {"before", "after", "none"}, n \in 0..1, k \in 0..1 }

\* Programs with one statement of each remaining kind of the grammar, and one
\* node that is no statement, as the body of f, followed by a function g:
\*   contract T { state { x: int; } function f() { <statement> }
\*                function g() { x = 2; } }
LoopStatements ==
    { WhileStmt(Identifier("x"), Block(<< >>)),
      ForStmt(VarDeclInit("i", "int", Literal(IntV(0))), Identifier("x"),
              Assignment(Identifier("i"), Literal(IntV(1))), Block(<< >>)),
      ForeachStmt("i", Identifier("x"), Block(<< >>)),
      AssertStmt(Identifier("x")),
      RevertStmt("m"),
      TryCatchStmt(Block(<< >>), Block(<< >>)),
      Param("q", "int") }

LoopInputs ==
    { Program(<< Contract("T", << State(<< VarDecl("x", "int") >>),
                                  Function("f", << >>, Block(<< s >>)),
                                  Function("g", << >>,
                                           Block(<< Assignment(Identifier("x"),
                                                               Literal(IntV(2))) >>)) >>) >>) :
        s \in LoopStatements }

CompileInputs ==
    { Program(<< Contract("T", << State(<< VarDecl("x", "int") >>), Event("E", << >>),
                                  Member(kind, n, body) >>) >>) :
        kind \in MemberKinds, n \in 0..MaxParams, body \in Bodies }
    \cup StateInputs \cup ParamInputs \cup StatementInputs
    \cup SelfInputs \cup DuplicateInputs \cup EmitOrderInputs \cup LoopInputs

\* What the host may hand to a second compile(): the same AST again, or
\* another program.
SecondInputs ==
    { Program(<< Contract("U", << State(<< VarDecl("x", "bool") >>) >>) >>) }

InitCompile ==
    /\ VMInit
    /\ FrontIdle
    /\ ast \in CompileInputs
    /\ compiler = CompilerReset
    /\ cphase = "source"
    /\ returned = << >>

\* What the host holds after bytecode = compiler.compile(program): the
\* artifact, compiler.errors, and the exception that left compile ("" for none).
Returned(c, program) ==
    [ast |-> program, bytecode |-> c.bytecode, errors |-> c.errors,
     exception |-> c.exception]

\* bytecode = compiler.compile(ast)
CompileAst ==
    /\ cphase = "source"
    /\ compiler' = Compile(compiler, ast)
    /\ cphase' = "compiled"
    /\ returned' = << Returned(compiler', ast) >>
    /\ UNCHANGED << ast, vmvars, frontvars >>

\* reset() with the symbol tables left as they are.
ResetKeepingSymbols(c) == [CompilerReset EXCEPT !.symbols = c.symbols]

\* compiler.reset(): every field is assigned anew; self.bytecode becomes a new
\* dict, so an artifact returned before is a different object.
ResetCompiler(c) == CompilerReset

ResetAfterCompile ==
    /\ cphase = "compiled"
    /\ compiler' = ResetCompiler(compiler)
    /\ cphase' = "reset"
    /\ UNCHANGED << ast, returned, vmvars, frontvars >>

\* A second compiler.compile(...) on the same Compiler. compile() does not
\* call reset(), and it returns self.bytecode itself: without a reset in
\* between, the first call's artifact is the dict the second call writes.
CompileAgain ==
    \E second \in {ast} \cup SecondInputs :
        /\ cphase \in {"compiled", "reset"}
        /\ compiler.exception = ""
        /\ ast' = second
        /\ compiler' = Compile(compiler, second)
        /\ cphase' = IF cphase = "reset" THEN "recompiled" ELSE "again"
        /\ returned' = << IF cphase = "compiled"
                          THEN [returned[1] EXCEPT !.bytecode = compiler'.bytecode]
                          ELSE returned[1],
                          Returned(compiler', second) >>
        /\ UNCHANGED << vmvars, frontvars >>

NextCompile == CompileAst \/ ResetAfterCompile \/ CompileAgain

SpecCompile == InitCompile /\ [][NextCompile]_vars

\* ---------------------------------------------------------------- front end
\* lexer = Lexer(source), lexer.tokenize() token by token, then
\* Parser(tokens).parse(), for every source text of up to MaxLen characters
\* of the alphabet.
InitLex ==
    /\ VMInit
    /\ CompilerIdle
    /\ FrontIdle

\* lexer = Lexer(source_code)
MakeLexer ==
    /\ ~LexerMade
    /\ \E input_text \in Sources : lexer' = NewLexer(input_text)
    /\ UNCHANGED << tokens, psvars, vmvars, ccvars >>

\* One turn of tokenize's loop: tokens.append(self.next_token()).
TokenizeStep ==
    /\ LexerMade
    /\ ~TokenizeDone
    /\ \E next \in {NextToken(lexer)} :
        /\ lexer' = next.lx
        /\ tokens' = Append(tokens, next.token)
    /\ UNCHANGED << psvars, vmvars, ccvars >>

\* ast = Parser(tokens).parse() on the finished token list.
ParseTokens ==
    /\ TokenizeDone
    /\ ~parsed.called
    /\ \E result \in {Parse(NewParser(tokens))} :
        /\ parser' = result.p
        /\ parsed' = [called |-> TRUE, exception |-> result.exception, node |-> result.node]
    /\ UNCHANGED << lxvars, vmvars, ccvars >>

NextLex == MakeLexer \/ TokenizeStep \/ ParseTokens

SpecLex == InitLex /\ [][NextLex]_vars

\* tokenize's loop is a plain while loop of one thread: it keeps running.
FairSpecLex == SpecLex /\ WF_vars(TokenizeStep)

\* -------------------------------------------------------------- properties
\* The frame _execute_code runs (call_stack[-1]) and the instruction at its
\* index, while a call is in progress.
CurrentFrame == call_stack[Len(call_stack)]

AtEnd == CurrentFrame.pc >= Len(CodeOf(Machine, CurrentFrame))

CurrentInstruction ==
    IF AtEnd THEN Instr("") ELSE CodeOf(Machine, CurrentFrame)[CurrentFrame.pc + 1]

\* The exceptions a call of the VM ends with.
Failures == {"VMError", "IndexError", "TypeError", "RecursionError"}

\* C1: a step that finishes a top-level call, by a normal return or by a VM
\* error, leaves the call stack as deep as it was before the call: the frames
\* of the call's activations in progress (ExecDepth of them) are gone.
C1_FramesUnwound ==
    [][(pystack' = << >> /\ last'.outcome \in {"ok", "VMError"}) =>
          Len(call_stack') = Len(call_stack) - ExecDepth(Machine)
      ]_vars

\* C2: the state variable written as self.<name>, as the SimpleToken
\* constructor writes it, round-trips: at a deployed address the code of the
\* SimpleToken functions runs without failing, the constructor returns with its argument stored in
\* the state variable name of its address, and getName returns what is stored
\* there.
C2_StateVariableRoundTrip ==
    [][(/\ ~Idle
        /\ CurrentFrame.contract_name = "SimpleToken"
        /\ InstanceIndex(contract_instances, CurrentFrame.contract_address) # 0) =>
         LET address == CurrentFrame.contract_address
             offset == contracts["SimpleToken"].state_variables["name"].offset
             returns == Len(call_stack') < Len(call_stack)
         IN /\ last'.outcome \notin Failures
            /\ (returns /\ CurrentFrame.function_name = "constructor") =>
                  /\ address \in DOMAIN storage'
                  /\ offset \in DOMAIN storage'[address]
                  /\ storage'[address][offset] = CurrentFrame.locals[0]
            /\ (returns /\ CurrentFrame.function_name = "getName") =>
                  /\ offset \in DOMAIN storage[address]
                  /\ last'.value = storage[address][offset]
      ]_vars

\* C3: when the code compiled from
\*   if (c) { emit Then(); } else { emit Else(); } emit After();
\* has run to its end, the last two log entries are the event of the block
\* the condition selects (Then for a truthy c, Else for a falsy c) and After.
C3_ConditionalSemantics ==
    (~Idle /\ CurrentFrame.function_name = "branch" /\ AtEnd) =>
        /\ Len(logs) >= 2
        /\ logs[Len(logs) - 1].event =
              (IF Truthy(CurrentFrame.locals[0]) THEN "Then" ELSE "Else")
        /\ logs[Len(logs)].event = "After"

\* A JUMP, or a JUMP_IF_FALSE whose condition is falsy, is about to execute.
JumpTaken ==
    /\ ~Idle
    /\ \/ CurrentInstruction.op = "JUMP"
       \/ /\ CurrentInstruction.op = "JUMP_IF_FALSE"
          /\ CurrentFrame.stack # << >>
          /\ ~Truthy(Peek(CurrentFrame, 1))

\* C4 (as the code has it): a taken jump at index j with offset k continues
\* in the same frame with the instruction at index j + k; the offset is
\* counted from the jump itself.
C4_JumpRelativeToJump ==
    [][JumpTaken =>
         /\ Len(call_stack') = Len(call_stack)
         /\ call_stack'[Len(call_stack')].pc = CurrentFrame.pc + CurrentInstruction.offset
      ]_vars

\* C4 (as claimed): a taken jump at index j with offset k continues with the
\* instruction at index j + 1 + k.
C4_JumpRelativeToNext ==
    [][JumpTaken =>
         /\ Len(call_stack') = Len(call_stack)
         /\ call_stack'[Len(call_stack')].pc
               = CurrentFrame.pc + 1 + CurrentInstruction.offset
      ]_vars

\* C4: a JUMP_IF_FALSE has been taken: branch(c) with a falsy c is at index 3
\* (the JUMP_IF_FALSE at index 1 has offset 2) with its condition popped.
C4_JumpWasTaken ==
    /\ ~Idle
    /\ CurrentFrame.function_name = "branch"
    /\ ~Truthy(CurrentFrame.locals[0])
    /\ CurrentFrame.pc = 3
    /\ CurrentFrame.stack = << >>

\* The code list of every function entry of the artifact satisfies P.
EveryFunctionCode(P(_, _)) ==
    \A cn \in DOMAIN compiler.bytecode.contracts :
        \A fn \in DOMAIN compiler.bytecode.contracts[cn].functions :
            P(compiler.bytecode.contracts[cn].functions[fn].params,
              compiler.bytecode.contracts[cn].functions[fn].code)

CompiledClean ==
    cphase = "compiled" /\ compiler.errors = << >> /\ compiler.exception = ""

\* C5: the code of every function entry of an artifact compiled without
\* errors ends with RETURN.
C5_CodeEndsWithReturn ==
    CompiledClean =>
        EveryFunctionCode(LAMBDA params, code :
            code # << >> /\ code[Len(code)].op = "RETURN")

\* C6: in every function entry of an artifact compiled without errors, each
\* let has a slot of its own at or after the N parameter slots: every
\* STORE_LOCAL (here always a let's) has an index >= N, and no two have the
\* same index.
C6_LocalsFollowParams ==
    CompiledClean =>
        EveryFunctionCode(LAMBDA params, code :
            \A k \in 1..Len(code) :
                code[k].op = "STORE_LOCAL" =>
                    /\ code[k].index >= Len(params)
                    /\ \A j \in 1..Len(code) :
                          (j # k /\ code[j].op = "STORE_LOCAL") =>
                              code[j].index # code[k].index)

\* C7: no step but reset replaces the instance record or the storage of an
\* address deployed earlier: the instance records stay as they are, and a
\* storage that holds values is not made empty again.
C7_DeploymentsNeverReplace ==
    [][\/ contract_instances' = << >> /\ storage' = EmptyDict
       \/ /\ \A k \in 1..Len(contract_instances) :
                /\ k <= Len(contract_instances')
                /\ contract_instances'[k] = contract_instances[k]
          /\ \A a \in DOMAIN storage :
                /\ a \in DOMAIN storage'
                /\ storage[a] # EmptyDict => storage'[a] # EmptyDict
      ]_vars

\* An EMIT whose arguments are on the stack is about to execute.
EmitExecutes ==
    /\ ~Idle
    /\ CurrentInstruction.op = "EMIT"
    /\ Len(CurrentFrame.stack) >= CurrentInstruction.args_count

\* C8: the log changes only by reset, which empties it, and by an executed
\* EMIT, which appends one entry: the contract and address of the frame that
\* executes it, the event, no topics, and the arguments in the order they
\* were pushed (for emit P(v, 9) in set(v): the argument v, then 9).
C8_LogAppendOnly ==
    [][IF EmitExecutes
       THEN LET n == CurrentInstruction.args_count
                depth == Len(CurrentFrame.stack)
                entry == [contract |-> CurrentFrame.contract_name,
                          address |-> CurrentFrame.contract_address,
                          event |-> CurrentInstruction.event,
                          topics |-> << >>,
                          data |-> [i \in 1..n |-> CurrentFrame.stack[depth - n + i]]]
            IN /\ logs' = Append(logs, entry)
               /\ CurrentFrame.function_name = "set" =>
                     entry.data = << CurrentFrame.locals[0], IntV(9) >>
       ELSE logs' = logs \/ (Idle /\ logs' = << >> /\ contracts' = EmptyDict)
      ]_vars

\* C8: the log holds the entries of a nested call in emission order (outer
\* emits E(1), then inner E(2)) after an entry with two arguments.
C8_EmittedInOrder ==
    \E k \in 1..Len(logs) :
        /\ k + 2 <= Len(logs)
        /\ logs[k].event = "P" /\ logs[k].data = << IntV(2), IntV(9) >>
        /\ logs[k + 1].data = << IntV(1) >>
        /\ logs[k + 2].data = << IntV(2) >>

\* A STORE_STATE whose value is on the stack is about to execute.
StoreExecutes ==
    /\ ~Idle
    /\ CurrentInstruction.op = "STORE_STATE"
    /\ CurrentFrame.stack # << >>

\* C9: while a call runs, storage changes only by STORE_STATE, which puts the
\* popped value at its offset in the storage of the frame's address; every
\* other step, the one that fails included, leaves storage as it is, so what
\* was written before a failure stays written.
C9_NoRollback ==
    [][~Idle =>
         IF StoreExecutes
         THEN LET a == CurrentFrame.contract_address IN
              /\ DOMAIN storage' = DOMAIN storage \cup {a}
              /\ \A b \in DOMAIN storage : b # a => storage'[b] = storage[b]
              /\ DOMAIN storage'[a] =
                    (IF a \in DOMAIN storage THEN DOMAIN storage[a] ELSE {})
                    \cup {CurrentInstruction.offset}
              /\ \A o \in DOMAIN storage'[a] :
                    storage'[a][o] = IF o = CurrentInstruction.offset
                                     THEN Peek(CurrentFrame, 1)
                                     ELSE storage[a][o]
         ELSE storage' = storage
      ]_vars

\* C9: set(0) has failed dividing by zero after writing x = 0 over the
\* constructor's 7, and the 0 is still in storage.
C9_WriteSurvivesFailure ==
    /\ Idle
    /\ last.outcome = "VMError"
    /\ last.message = "Division by zero"
    /\ \E a \in DOMAIN storage :
          /\ 0 \in DOMAIN storage[a]
          /\ storage[a][0] = IntV(0)

\* The contract is of a program that compiled without errors.
CompiledWithoutErrors(contract_name) ==
    \E p \in 1..Len(Programs) :
        /\ contract_name \in DOMAIN Artifacts[p].contracts
        /\ CompileErrors[p] = << >>

\* C10: no instruction of a contract compiled without errors ends the call
\* with the VM error "Unknown opcode" for an opcode the compiler emits.
C10_NoUnknownOpcode ==
    [][(~Idle /\ CompiledWithoutErrors(CurrentFrame.contract_name)) =>
          ~(/\ last'.outcome = "VMError"
            /\ \E op \in {"DUP", "MOD", "AND", "OR", "STORE_INDEX"} :
                  last'.message = "Unknown opcode: " \o op)
      ]_vars

\* The opcodes _execute_code has an arm for.
KnownOpcodes ==
    {"PUSH", "POP", "STORE_LOCAL", "LOAD_LOCAL", "STORE_STATE", "LOAD_STATE",
     "STORE_MEMBER", "LOAD_MEMBER", "LOAD_INDEX", "CALL", "RETURN", "JUMP",
     "JUMP_IF_FALSE", "REQUIRE", "EMIT", "NEG", "NOT"} \cup BinaryOps

\* The message of the VM error the instruction about to execute must end in,
\* "" when it is none of the listed failures: a division by zero, a REQUIRE
\* on a falsy condition, an unknown opcode, a LOAD_LOCAL of an unset slot, a
\* LOAD_MEMBER on a value that is no object and not self, a LOAD_INDEX that
\* finds no element (no value here is a list or a dict).
FailureMessage ==
    LET ins == CurrentInstruction
        f == CurrentFrame
    IN CASE Idle \/ AtEnd -> ""
         [] ins.op = "DIV" /\ Len(f.stack) >= 2 /\ PyEq(Peek(f, 1), IntV(0)) ->
                "Division by zero"
         [] ins.op = "REQUIRE" /\ Len(f.stack) >= 1 /\ ~Truthy(Peek(f, 1)) -> ins.message
         [] ins.op \notin KnownOpcodes -> "Unknown opcode: " \o ins.op
         [] ins.op = "LOAD_LOCAL" /\ ins.index \notin DOMAIN f.locals ->
                "Local variable at index " \o ToString(ins.index) \o " not found"
         [] ins.op = "LOAD_MEMBER" /\ Len(f.stack) >= 1 /\ ~PyEq(Peek(f, 1), StrV("self")) ->
                "Cannot load member " \o ins.member \o " from non-object value"
         [] ins.op = "LOAD_INDEX" /\ Len(f.stack) >= 2 ->
                "Cannot load index " \o PyStr(Peek(f, 1)) \o " from object"
         [] OTHER -> ""

\* The messages of a call the host makes that fails before any instruction:
\* unknown contract, unknown function, argument-count mismatch.
CallFailureMessages ==
    {"Contract " \o cn \o " not found" : cn \in ContractNames}
    \cup {"Function " \o fn \o " not found in contract " \o cn :
             fn \in FunctionNames, cn \in ContractNames}
    \cup {"Expected " \o ToString(n) \o " arguments, got " \o ToString(k) :
             n \in 0..2, k \in 0..1}

RECURSIVE StateDeclarations(_)
StateDeclarations(members) ==
    IF members = << >>
    THEN << >>
    ELSE (IF Head(members).node_type = "STATE" THEN Head(members).children ELSE << >>)
         \o StateDeclarations(Tail(members))

\* The place of the declaration of var_name that the compiler accepts among
\* decls: the first one of that name with a known type (0 for none). A later
\* one of the same name is a duplicate.
AcceptedAt(decls, var_name) ==
    LET places == {k \in 1..Len(decls) :
                      /\ decls[k].attributes.name = var_name
                      /\ decls[k].children[1].attributes.name \in PrimitiveTypes}
    IN IF places = {} THEN 0 ELSE CHOOSE k \in places : \A j \in places : k <= j

\* C12: after compile() on a fresh Compiler, in every contract of the program
\* the state variables of the artifact are the accepted declarations, and the
\* offset of each is the number of accepted declarations before it in the
\* contract: 0, 1, ..., n-1 in declaration order, whatever was rejected, over
\* all state blocks of the contract, and from 0 again in every contract.
C12_OffsetsDense ==
    (cphase = "compiled" /\ compiler.exception = "" /\ ast \in StateInputs) =>
        \A k \in 1..Len(ast.children) :
            LET contract == ast.children[k]
                decls == StateDeclarations(contract.children)
                state_variables ==
                    compiler.bytecode.contracts[contract.attributes.name].state_variables
                accepted == {j \in 1..Len(decls) :
                                AcceptedAt(decls, decls[j].attributes.name) = j}
            IN /\ DOMAIN state_variables = {decls[j].attributes.name : j \in accepted}
               /\ \A j \in accepted :
                     state_variables[decls[j].attributes.name].offset =
                         Cardinality({i \in accepted : i < j})
               /\ {state_variables[v].offset : v \in DOMAIN state_variables} =
                      0..(Cardinality(DOMAIN state_variables) - 1)

\* Two contracts compiled in one program: in the first a duplicate is rejected
\* after an accepted declaration, in the second a declaration of unknown type
\* is rejected before an accepted one, which gets offset 0 again.
C12_TwoContractsWithRejection ==
    /\ cphase = "compiled"
    /\ ast = Program(<< Contract("T", << State(<< VarDecl("x", "int"), VarDecl("x", "bogus") >>) >>),
                        Contract("U", << State(<< VarDecl("x", "bogus"), VarDecl("y", "bool") >>) >>) >>)
    /\ compiler.errors # << >>
    /\ compiler.bytecode.contracts["T"].state_variables["x"].offset = 0
    /\ compiler.bytecode.contracts["U"].state_variables["y"].offset = 0

\* The function f of the programs of ParamInputs is
\*   function f(<params>) returns int { return <q>; }
\* so the first instruction of its code is the load of q.
ReturnedName(program) ==
    LET function == program.children[1].children[1]
        body == function.children[Len(function.children)]
    IN body.children[1].children[1].attributes.name

\* C13: in a compiled function the load of the k-th listed parameter is
\* LOAD_LOCAL of slot k-1, the slot where execute_function puts the k-th
\* argument (frame["locals"][i] = arg for the i-th of the arguments, as many
\* as the listed parameters).
C13_ParamSlotsMatch ==
    (/\ cphase = "compiled"
     /\ ast \in ParamInputs
     /\ "f" \in DOMAIN compiler.bytecode.contracts["T"].functions) =>
        LET entry == compiler.bytecode.contracts["T"].functions["f"] IN
        \A k \in 1..Len(entry.params) :
            entry.params[k].name = ReturnedName(ast) =>
                entry.code[1] = [Instr("LOAD_LOCAL") EXCEPT !.index = k - 1]

C15_ScopedToOneCompile ==
    cphase = "again" =>
        /\ returned[2].bytecode = Compile(CompilerReset, returned[2].ast).bytecode
        /\ returned[2].errors = Compile(CompilerReset, returned[2].ast).errors
        /\ returned[1].bytecode = Compile(CompilerReset, returned[1].ast).bytecode

TokenTypesOf(token_list) == [k \in 1..Len(token_list) |-> token_list[k].token_type]

\* C16: tokenize terminates: every next_token call made where characters are
\* left moves the lexer forward by at least one character, the loop of a
\* Lexer that was made reaches its end, and EOF is never a token other than
\* the last one, with which tokenize returns.
C16_TokenizeTerminates ==
    /\ [][(tokens' # tokens /\ lexer.position < Len(lexer.input)) =>
             lexer'.position > lexer.position]_vars
    /\ [](\A k \in 1..(Len(tokens) - 1) : tokens[k].token_type # "EOF")
    /\ (LexerMade ~> TokenizeDone)

\* tokenize has returned for a text of full length that ends inside a string:
\* a number, a slash, the unterminated string, EOF.
C16_ReturnedInsideString ==
    /\ TokenizeDone
    /\ lexer.input = << "1", "/", "\"", "a", "\n" >>
    /\ TokenTypesOf(tokens) = << "INT", "SLASH", "STRING", "EOF" >>

\* Newlines among the first n characters of the text, and the place (0-based)
\* where the line of character n (0-based) starts.
NewlinesBefore(input, n) == Cardinality({k \in 1..n : input[k] = "\n"})

LineStart(input, n) ==
    LET breaks == {k \in 1..n : input[k] = "\n"}
    IN IF breaks = {} THEN 0 ELSE CHOOSE k \in breaks : \A j \in breaks : j <= k

\* C17: the token a next_token call returns has line = 1 + the newlines before
\* its first character and column = 1 + the characters between the start of
\* that line and its first character.
C17_PositionsOneBased ==
    [][tokens' # tokens =>
          LET first == SkipToToken(lexer).position
              token == tokens'[Len(tokens')]
          IN (first < Len(lexer.input)) =>
                 /\ token.line = 1 + NewlinesBefore(lexer.input, first)
                 /\ token.column = 1 + (first - LineStart(lexer.input, first))
      ]_vars

\* Whether the text from character i (1-based) on is nothing but whitespace,
\* line comments (// up to the newline or the end) and block comments
\* (/* up to */, or up to the end when unterminated).
RECURSIVE OnlyComments(_, _)
OnlyComments(input, i) ==
    IF i > Len(input)
    THEN TRUE
    ELSE IF IsSpace(input[i])
    THEN OnlyComments(input, i + 1)
    ELSE IF i < Len(input) /\ input[i] = "/" /\ input[i + 1] = "/"
    THEN LET ends == {k \in (i + 2)..Len(input) : input[k] = "\n"}
         IN ends = {} \/ OnlyComments(input, (CHOOSE k \in ends : \A j \in ends : k <= j) + 1)
    ELSE IF i < Len(input) /\ input[i] = "/" /\ input[i + 1] = "*"
    THEN LET ends == {k \in (i + 2)..(Len(input) - 1) : input[k] = "*" /\ input[k + 1] = "/"}
         IN ends = {} \/ OnlyComments(input, (CHOOSE k \in ends : \A j \in ends : k <= j) + 2)
    ELSE FALSE

\* C18: for a text of comments and whitespace only, tokenize returns the EOF
\* token and nothing else: no character of a comment becomes a token.
C18_CommentsAreWhitespace ==
    (TokenizeDone /\ OnlyComments(lexer.input, 1)) => TokenTypesOf(tokens) = << "EOF" >>

\* C19: parse() on the token list of tokenize returns a PROGRAM node, no
\* exception leaves it, at most one error is recorded, and with an error the
\* PROGRAM returned has no children.
C19_ParserFailsSoft ==
    parsed.called =>
        /\ parsed.exception = ""
        /\ parsed.node.node_type = "PROGRAM"
        /\ Len(parser.errors) <= 1
        /\ (Len(parser.errors) = 1 => parsed.node.children = << >>)

\* The place of the outermost deploy_contract among the activations, 0 for none.
DeployIndex(activations) ==
    LET places == {k \in 1..Len(activations) : activations[k].kind = "deploy"}
    IN IF places = {} THEN 0 ELSE CHOOSE k \in places : \A j \in places : k <= j

\* The instance at address a records contract name, a has a storage entry and
\* the shortcut of name is a, in the state after a step.
DeployedAfter(name, a) ==
    /\ InstanceIndex(contract_instances', a) # 0
    /\ contract_instances'[InstanceIndex(contract_instances', a)].name = name
    /\ contract_instances'[InstanceIndex(contract_instances', a)].storage_address = a
    /\ a \in DOMAIN storage'
    /\ name \in DOMAIN addresses'
    /\ addresses'[name] = a

\* C20: deploy_contract(name, args) of a loaded contract with a constructor
\* enters the constructor once, in a new frame of name at the new address a
\* with args in its slots, and nothing else is entered for it until it
\* returns; when it returns a, with or without a constructor, the instance at
\* a records name, a has a storage entry and addresses[name] = a, whatever was
\* deployed before. deploy_contract of a name that is not loaded raises
\* VMError "Contract <name> not found" and leaves the VM as it was.
C20_DeploymentPostcondition ==
    /\ [](Idle =>
            \A name \in ContractNames \ DOMAIN contracts, args \in ArgLists, rnd \in Addresses :
                LET m == DeployContractCall(Calling, name, args, rnd) IN
                /\ m.last = Outcome("VMError", "Contract " \o name \o " not found", NoneV, 0)
                /\ [m EXCEPT !.last = last] = Machine)
    /\ [][LET k == DeployIndex(pystack)
              k1 == DeployIndex(pystack')
          IN
          \* the call is made and reaches the constructor
          /\ (k = 0 /\ k1 # 0) =>
                LET deploy == pystack'[k1] IN
                /\ Len(pystack') = k1 + 1
                /\ pystack'[k1 + 1] = Activation("exec", deploy.contract_name, "constructor",
                                                 deploy.args, deploy.address)
                /\ Len(call_stack') = Len(call_stack) + 1
                /\ call_stack'[Len(call_stack')] =
                       Frame(deploy.contract_name, deploy.address, "constructor",
                             [i \in 0..(Len(deploy.args) - 1) |-> deploy.args[i + 1]])
                /\ stats'.function_calls = stats.function_calls + 1
                /\ DeployedAfter(deploy.contract_name, deploy.address)
          \* the constructor is running
          /\ (k # 0 /\ k1 # 0) =>
                /\ k1 = k
                /\ SubSeq(pystack', 1, k + 1) = SubSeq(pystack, 1, k + 1)
          \* the constructor returns, and deploy_contract with it
          /\ (k # 0 /\ k1 = 0 /\ last'.outcome \in {"ok", "running"}) =>
                /\ Len(pystack) = k + 1
                /\ DeployedAfter(pystack[k].contract_name, pystack[k].address)
                /\ (pystack' = << >> => last'.address = pystack[k].address)
          \* a contract without constructor: deploy_contract returns at once
          /\ (Idle /\ pystack' = << >> /\ last'.outcome = "ok" /\ last'.address # 0) =>
                \E name \in DOMAIN contracts :
                    /\ "constructor" \notin DOMAIN contracts[name].functions
                    /\ DeployedAfter(name, last'.address)
                    /\ call_stack' = call_stack
                    /\ stats' = stats
      ]_vars

\* A contract with a constructor deployed a second time, at another address:
\* the second deploy_contract has returned the address the shortcut now has.
C20_SecondDeploymentWins ==
    /\ Idle
    /\ last.outcome = "ok"
    /\ last.address # 0
    /\ Len(contract_instances) = 2
    /\ contract_instances[1].name = contract_instances[2].name
    /\ "constructor" \in DOMAIN contracts[contract_instances[2].name].functions
    /\ contract_instances[2].address = last.address
    /\ addresses[contract_instances[2].name] = last.address
    /\ stats.function_calls = 2

\* ------------------------------------------------------------------------ C21
\* m is the VM after execute_function(name, fn, args, ...) has pushed its frame:
\* one new frame, of fn of name, at address a.
RunsAgainst(m, name, fn, args, a) ==
    /\ m.pystack = << Activation("exec", name, fn, args, a) >>
    /\ Len(m.call_stack) = Len(call_stack) + 1
    /\ Top(m).contract_name = name
    /\ Top(m).function_name = fn
    /\ Top(m).contract_address = a

\* C21: execute_function of a loaded function with the right number of
\* arguments runs against the address given when one is given; without one it
\* runs against the address deploy_contract returned last for the name, and
\* deploys nothing while an instance of the name exists; with no instance of
\* the name it deploys one instance with no constructor arguments and, once
\* the constructor has returned, runs against that instance.
C21_ResolutionOrder ==
    /\ [](Idle =>
            \A name \in DOMAIN contracts :
            \A fn \in DOMAIN contracts[name].functions, args \in ArgLists :
                Len(args) = Len(contracts[name].functions[fn].params) =>
                /\ \A a \in Addresses :
                        LET m == EnterFunction(Calling, name, fn, args, a, 1) IN
                        /\ RunsAgainst(m, name, fn, args, a)
                        /\ m.contract_instances = contract_instances
                /\ name \in DOMAIN deployed =>
                        RunsAgainst(EnterFunction(Calling, name, fn, args, 0, 1),
                                    name, fn, args, deployed[name])
                /\ FirstInstanceOf(contract_instances, name) # 0 =>
                        EnterFunction(Calling, name, fn, args, 0, 1).contract_instances
                            = contract_instances
                /\ (/\ FirstInstanceOf(contract_instances, name) = 0
                    /\ name \notin DOMAIN addresses) =>
                        \A rnd \in Addresses :
                            LET m == EnterFunction(Calling, name, fn, args, 0, rnd) IN
                            /\ m.contract_instances
                                   = PutInstance(contract_instances, rnd, name)
                            /\ IF "constructor" \in DOMAIN contracts[name].functions
                               THEN \/ m.pystack = << >>
                                    \/ m.pystack =
                                         << Activation("resolve", name, fn, args, 0),
                                            Activation("deploy", name, "", << >>, rnd),
                                            Activation("exec", name, "constructor", << >>,
                                                       rnd) >>
                               ELSE RunsAgainst(m, name, fn, args, rnd))
    /\ [][(/\ Len(pystack) = 3
           /\ pystack[1].kind = "resolve"
           /\ Len(pystack') = 1) =>
                /\ pystack' = << Activation("exec", pystack[1].contract_name,
                                            pystack[1].function_name, pystack[1].args,
                                            pystack[2].address) >>
                /\ call_stack'[Len(call_stack')].contract_address = pystack[2].address
                /\ contract_instances' = contract_instances
      ]_vars

\* ------------------------------------------------------------------------ C22
\* C22: execute_function(name, fn, args, ...) of a loaded function with a
\* number of arguments other than the number of its parameters raises VMError
\* "Expected <p> arguments, got <n>" within the call and leaves every field of
\* the VM as it was: no frame, no instruction run, no counter changed, no
\* instance, shortcut or storage entry created, with or without an instance
\* of the contract.
C22_ArgumentCheckFirst ==
    Idle =>
        \A name \in DOMAIN contracts :
        \A fn \in DOMAIN contracts[name].functions, args \in ArgLists,
           contract_address \in {0} \cup Addresses, rnd \in Addresses :
            LET params == contracts[name].functions[fn].params
                m == EnterFunction(Calling, name, fn, args, contract_address, rnd)
            IN Len(args) # Len(params) =>
                /\ m.pystack = << >>
                /\ m.last = Outcome("VMError",
                                    "Expected " \o ToString(Len(params)) \o " arguments, got "
                                        \o ToString(Len(args)),
                                    NoneV, 0)
                /\ Fields(m) = Fields(Machine)

\* ------------------------------------------------------------------------ C23
\* The step is a call of reset().
IsReset == ncalls' = ncalls + 1 /\ host'.op = "reset"

\* C23: no step of load_contract, deploy_contract or execute_function, nor of
\* the code they run, makes a counter of stats smaller, whether the call
\* fails or not; reset() sets all five to 0.
C23_StatsCumulative ==
    [][IF IsReset
       THEN stats' = ZeroStats
       ELSE \A counter \in DOMAIN stats : stats'[counter] >= stats[counter]
      ]_vars

\* A call has failed on a VM that had counted calls before it, and every kind
\* of counter stands above 0.
C23_CountersAfterFailure ==
    /\ Idle
    /\ last.outcome \notin {"ok", "none", "running"}
    /\ host.op = "execute_function"
    /\ host.before.stats.function_calls > 0
    /\ stats.function_calls > host.before.stats.function_calls
    /\ stats.instructions_executed > host.before.stats.instructions_executed
    /\ stats.gas_used > 0
    /\ stats.storage_writes > 0
    /\ stats.storage_reads > 0

\* ------------------------------------------------------------------------ C24
\* The call raises VMError "Contract <name> not found" and leaves the VM m0 as
\* it was; m is the VM after the call.
NotFound(m, m0, name) ==
    /\ m.pystack = << >>
    /\ m.last = Outcome("VMError", "Contract " \o name \o " not found", NoneV, 0)
    /\ Fields(m) = Fields(m0)

\* C24: reset() leaves the fields of a newly constructed VM, whatever the
\* calls before it did; a second reset() changes nothing; a contract enters
\* self.contracts only by load_contract, and while a name is not in it, as
\* after a reset, deploy_contract and execute_function of that name raise
\* VMError "Contract <name> not found".
C24_ResetIsNew ==
    /\ [](Idle =>
            /\ Fields(ResetMachine(Machine)) = NewMachine
            /\ ResetMachine(ResetMachine(Machine)) = ResetMachine(Machine)
            /\ \A name \in ContractNames \ DOMAIN contracts :
                /\ \A args \in ArgLists, rnd \in Addresses :
                      NotFound(DeployContractCall(Calling, name, args, rnd), Machine, name)
                /\ \A fn \in FunctionNames, args \in ArgLists,
                      contract_address \in {0} \cup Addresses :
                      NotFound(EnterFunction(Calling, name, fn, args, contract_address, 1),
                               Machine, name))
    /\ [][/\ IsReset =>
               /\ contracts' = EmptyDict
               /\ contract_instances' = << >>
               /\ storage' = EmptyDict
               /\ logs' = << >>
               /\ addresses' = EmptyDict
               /\ call_stack' = << >>
               /\ stats' = ZeroStats
               /\ pystack' = << >>
          /\ DOMAIN contracts' \subseteq DOMAIN contracts
                \/ (ncalls' = ncalls + 1 /\ host'.op = "load_contract")
      ]_vars

\* reset() was called on a VM with a contract loaded and deployed, storage
\* written, an event logged, statistics counted and the frame of a failed call
\* on the call stack.
C24_ResetAfterFailure ==
    /\ Idle
    /\ host.op = "reset"
    /\ Fields(Machine) = NewMachine
    /\ "Bank" \in DOMAIN host.before.contracts
    /\ host.before.contract_instances # << >>
    /\ \E a \in DOMAIN host.before.storage : host.before.storage[a] # EmptyDict
    /\ host.before.logs # << >>
    /\ host.before.call_stack # << >>
    /\ host.before.stats.instructions_executed > 0

\* ------------------------------------------------------------------------ C25
\* The step ends with an execute_function that has just pushed its frame: the
\* host or a CALL has entered a function, or execute_function has gone on
\* after the deployment it made.
FrameEntered ==
    /\ pystack' # << >>
    /\ \/ Len(pystack') > Len(pystack)
       \/ Len(pystack) = 3 /\ pystack[1].kind = "resolve" /\ Len(pystack') = 1

\* C25: a frame starts at index 0. An instruction at index j after which the
\* same frame goes on leaves it at j + offset if it is a JUMP, or a
\* JUMP_IF_FALSE that finds a falsy value, and at j + 1 otherwise, a
\* JUMP_IF_FALSE that finds a truthy value included; a CALL leaves its frame at
\* j until the callee returns and at j + 1 then.
C25_ProgramCounter ==
    [][/\ FrameEntered => call_stack'[Len(call_stack')].pc = 0
       /\ (~Idle /\ ~AtEnd /\ pystack' = pystack) =>
             /\ Len(call_stack') = Len(call_stack)
             /\ call_stack'[Len(call_stack')].pc =
                   IF JumpTaken
                   THEN CurrentFrame.pc + CurrentInstruction.offset
                   ELSE CurrentFrame.pc + 1
       /\ (~Idle /\ ~AtEnd /\ Len(pystack') = Len(pystack) + 1) =>
             /\ CurrentInstruction.op = "CALL"
             /\ call_stack'[Len(call_stack)] = PopN(CurrentFrame, CurrentInstruction.args_count)
       /\ (/\ Len(pystack) >= 2
           /\ pystack' = SubSeq(pystack, 1, Len(pystack) - 1)
           /\ pystack[Len(pystack) - 1].kind = "exec") =>
             /\ Len(call_stack') = Len(call_stack) - 1
             /\ call_stack'[Len(call_stack')].pc = call_stack[Len(call_stack) - 1].pc + 1
      ]_vars

\* branch(c) with a truthy c is at index 5: the JUMP_IF_FALSE at index 1 fell
\* through to the EMIT Then at 2, and the JUMP at index 3, offset 2, was taken.
C25_FellThroughThenJumped ==
    /\ ~Idle
    /\ CurrentFrame.function_name = "branch"
    /\ Truthy(CurrentFrame.locals[0])
    /\ CurrentFrame.pc = 5
    /\ logs # << >>
    /\ logs[Len(logs)].event = "Then"

\* ------------------------------------------------------------------------ C26
\* C26: gas_used equals instructions_executed in every state; a turn of the
\* loop of _execute_code on an instruction adds exactly 1 to both, whether
\* the instruction raises or not and whatever frame runs it (a function the
\* host called, a constructor, a callee of CALL); the return after the last
\* instruction and the calls of the host other than reset add nothing.
C26_GasIsInstructions ==
    /\ [](stats.gas_used = stats.instructions_executed)
    /\ [][IF ~Idle /\ ~AtEnd
          THEN /\ stats'.instructions_executed = stats.instructions_executed + 1
               /\ stats'.gas_used = stats.gas_used + 1
          ELSE IsReset \/ ( /\ stats'.instructions_executed = stats.instructions_executed
                            /\ stats'.gas_used = stats.gas_used )
      ]_vars

\* outer(0) was called on a VM with no instance of Bank: the constructor ran
\* its three instructions, outer four up to the CALL and inner four up to the
\* REQUIRE that raised "neg", and all eleven are counted.
C26_RaisingInstructionCounted ==
    /\ Idle
    /\ host.op = "execute_function"
    /\ host.before.contract_instances = << >>
    /\ last.outcome = "VMError"
    /\ last.message = "neg"
    /\ stats.instructions_executed = host.before.stats.instructions_executed + 11
    /\ stats.gas_used = host.before.stats.gas_used + 11
    /\ stats.function_calls = host.before.stats.function_calls + 3

\* ------------------------------------------------------------------------ C27
RECURSIVE RunToEnd(_)
\* The VM when the top-level call in progress on m has returned or raised.
RunToEnd(m) ==
    IF m.pystack = << >> THEN m ELSE Bind(ExecuteStep(m), LAMBDA after : RunToEnd(after))

\* The VM the last call found, with the storage it has left.
WithoutOtherTrace ==
    [contracts |-> host.before.contracts,
     contract_instances |-> host.before.contract_instances,
     storage |-> storage,
     logs |-> host.before.logs,
     addresses |-> host.before.addresses,
     call_stack |-> host.before.call_stack,
     stats |-> host.before.stats,
     pystack |-> << >>,
     last |-> Outcome("running", "", NoneV, 0)]

\* A deploy_contract or execute_function has just ended with a VMError.
FailedCall ==
    /\ Idle
    /\ host.op \in {"deploy_contract", "execute_function"}
    /\ last.outcome = "VMError"

CallsFunction ==
    /\ ~Idle
    /\ ~AtEnd
    /\ CurrentInstruction.op = "CALL"
    /\ CurrentInstruction.function \in DOMAIN contracts[CurrentFrame.contract_name].functions
    /\ Len(CurrentFrame.stack) >= CurrentInstruction.args_count

\* C28: a CALL f n of a function of the running frame's contract that takes n
\* parameters takes the n topmost values off the caller's stack and pushes one
\* frame of f at the caller's address with them in slots 0..n-1, the first
\* pushed in slot 0; while the callee and what it calls run, the frames below
\* stay as they are; when the callee returns its frame is gone, the caller has
\* its locals and the rest of its stack as before and one value more on its
\* stack, and the call stack is as deep as before the CALL.
C28_CallIsolation ==
    [][/\ (/\ CallsFunction
           /\ CurrentInstruction.args_count
                 = Len(contracts[CurrentFrame.contract_name]
                          .functions[CurrentInstruction.function].params)
           /\ ExecDepth(Machine) < MaxDepth) =>
             LET n == CurrentInstruction.args_count
                 depth == Len(call_stack)
             IN /\ Len(call_stack') = depth + 1
                /\ SubSeq(call_stack', 1, depth - 1) = SubSeq(call_stack, 1, depth - 1)
                /\ call_stack'[depth] =
                      [CurrentFrame EXCEPT !.stack = SubSeq(@, 1, Len(@) - n)]
                /\ call_stack'[depth + 1] =
                      Frame(CurrentFrame.contract_name, CurrentFrame.contract_address,
                            CurrentInstruction.function,
                            [i \in 0..(n - 1) |->
                                CurrentFrame.stack[Len(CurrentFrame.stack) - n + 1 + i]])
       /\ (~Idle /\ Len(pystack') >= Len(pystack)) =>
             SubSeq(call_stack', 1, Len(call_stack) - 1)
                 = SubSeq(call_stack, 1, Len(call_stack) - 1)
       /\ (/\ Len(pystack) >= 2
           /\ pystack' = SubSeq(pystack, 1, Len(pystack) - 1)
           /\ pystack[Len(pystack) - 1].kind = "exec") =>
             LET depth == Len(call_stack) - 1
                 caller == call_stack[depth]
             IN /\ Len(call_stack') = depth
                /\ SubSeq(call_stack', 1, depth - 1) = SubSeq(call_stack, 1, depth - 1)
                /\ call_stack'[depth].locals = caller.locals
                /\ Len(call_stack'[depth].stack) = Len(caller.stack) + 1
                /\ SubSeq(call_stack'[depth].stack, 1, Len(caller.stack)) = caller.stack
                /\ call_stack'[depth].contract_address = caller.contract_address
      ]_vars

\* pair(2) has called second(2, 5) and second has returned 5: pair's frame is
\* the only one, with its local a = 2 and the stack 2, 5.
C28_SecondReturned ==
    /\ ~Idle
    /\ Len(pystack) = 1
    /\ CurrentFrame.function_name = "pair"
    /\ CurrentFrame.pc = 4
    /\ CurrentFrame.locals = [i \in {0} |-> IntV(2)]
    /\ CurrentFrame.stack = << IntV(2), IntV(5) >>
    /\ stats.function_calls >= 2

\* ------------------------------------------------------------------------ C29
\* Address a is a key of contract_instances whose entry records contract name.
IsInstanceOf(a, name) ==
    /\ InstanceIndex(contract_instances, a) # 0
    /\ contract_instances[InstanceIndex(contract_instances, a)].name = name

\* C29: every address with a storage entry is a key of contract_instances,
\* and the address of every frame is a deployed instance of the frame's
\* contract; so a call with an address that is no such instance runs nothing
\* and creates no storage entry for it.
C29_OnlyDeployedInstances ==
    /\ \A a \in DOMAIN storage : InstanceIndex(contract_instances, a) # 0
    /\ \A k \in 1..Len(call_stack) :
          IsInstanceOf(call_stack[k].contract_address, call_stack[k].contract_name)

\* ------------------------------------------------------------------------ C30
\* The places of contract_instances a step has written: new records and
\* records that differ from before.
WrittenInstances ==
    {k \in 1..Len(contract_instances') :
        k > Len(contract_instances) \/ contract_instances'[k] # contract_instances[k]}

\* C30: addresses has a name exactly when some instance records that name,
\* and its address is then a key of contract_instances whose record has that
\* name; a step that writes an instance record for a name leaves the shortcut
\* of the name at that record's address, and no other step but reset changes
\* a shortcut.
C30_ShortcutConsistent ==
    /\ [](\A name \in ContractNames :
            /\ name \in DOMAIN addresses <=>
                  FirstInstanceOf(contract_instances, name) # 0
            /\ name \in DOMAIN addresses => IsInstanceOf(addresses[name], name))
    /\ [][IsReset \/
          /\ \A k \in WrittenInstances :
                LET name == contract_instances'[k].name IN
                /\ name \in DOMAIN addresses'
                /\ addresses'[name] = contract_instances'[k].address
          /\ WrittenInstances = {} => addresses' = addresses
      ]_vars

\* ------------------------------------------------------------------------ C31
\* The storages s and s1 agree at every address but a: the same addresses
\* have an entry, but for a, and the entries are equal.
SameButAt(s, s1, a) ==
    /\ (DOMAIN s1) \ {a} = (DOMAIN s) \ {a}
    /\ \A b \in (DOMAIN s) \ {a} : s1[b] = s[b]

\* C31: every invocation in progress runs against one address, that of the
\* host's call, its nested calls included. An instruction of a frame at
\* address A leaves the storage of every other address as it is; a STORE_STATE
\* o changes offset o of storage[A] and nothing else, and no other instruction
\* changes storage[A]. The call of the host that starts an invocation against
\* A changes no storage but that of A.
C31_StorageIsolation ==
    /\ [](\A j, k \in 1..Len(pystack) :
            (pystack[j].address # 0 /\ pystack[k].address # 0) =>
                pystack[j].address = pystack[k].address)
    /\ [][/\ (~Idle /\ ~AtEnd) =>
               LET A == CurrentFrame.contract_address
                   o == CurrentInstruction.offset
               IN /\ SameButAt(storage, storage', A)
                  /\ IF CurrentInstruction.op = "STORE_STATE" /\ CurrentFrame.stack # << >>
                     THEN /\ A \in DOMAIN storage'
                          /\ DOMAIN storage'[A] = DOMAIN StorageOf(Machine, A) \cup {o}
                          /\ storage'[A][o] = Peek(CurrentFrame, 1)
                          /\ \A other \in DOMAIN StorageOf(Machine, A) :
                                other # o => storage'[A][other] = storage[A][other]
                     ELSE storage' = storage
          /\ (~Idle /\ AtEnd) => storage' = storage
          /\ (Idle /\ pystack' # << >>) =>
               SameButAt(storage, storage', pystack'[Len(pystack')].address)
      ]_vars

\* set(2) has run to its end against one address and written both offsets
\* there, while the storage of another address, written by an earlier call,
\* is as that call left it.
C31_OtherStorageKept ==
    /\ Idle
    /\ host.op = "execute_function"
    /\ last.outcome = "ok"
    /\ \E a \in DOMAIN host.before.storage, b \in DOMAIN storage :
          /\ a # b
          /\ host.before.storage[a] # EmptyDict
          /\ storage[a] = host.before.storage[a]
          /\ DOMAIN storage[b] = {0, 1}
          /\ storage[b][0] = IntV(2)
          /\ StorageOf([storage |-> host.before.storage], b) # storage[b]

\* ------------------------------------------------------------------------ C32
\* Address a has no instance record, no storage entry and is no shortcut in
\* the VM m.
Unregistered(m, a) ==
    /\ InstanceIndex(m.contract_instances, a) = 0
    /\ a \notin DOMAIN m.storage
    /\ \A name \in DOMAIN m.addresses : m.addresses[name] # a

\* C32: when deploy_contract of a loaded contract, at an address not in use
\* before, ends with a VMError raised by the constructor's invocation (its
\* argument check included), the VM has no instance record, no storage entry
\* and no shortcut for that address afterwards.
C32_DeploymentAllOrNothing ==
    Idle =>
        \A name \in DOMAIN contracts, args \in ArgLists, rnd \in Addresses :
            Unregistered(Machine, rnd) =>
                LET m == RunToEnd(DeployContractCall(Calling, name, args, rnd)) IN
                m.last.outcome = "VMError" => Unregistered(m, rnd)

\* ------------------------------------------------------------------------ C33
\* A VM with the contracts of an artifact loaded and slots as the storage of
\* address 1.
LoadedWith(bytecode, slots) ==
    [contracts |-> bytecode.contracts, contract_instances |-> << >>,
     storage |-> Put(EmptyDict, 1, slots), logs |-> << >>, addresses |-> EmptyDict,
     call_stack |-> << >>, stats |-> ZeroStats, pystack |-> << >>,
     last |-> Outcome("running", "", NoneV, 0)]

\* The storages the compiled functions are run on: x unset (falsy) and x = 1.
SlotChoices == { EmptyDict, Put(EmptyDict, 0, IntV(1)) }

\* Every jump of code has an offset of at least 1 and a target within
\* 0..len(code).
JumpsForward(code) ==
    \A k \in 1..Len(code) :
        code[k].op \in {"JUMP", "JUMP_IF_FALSE"} =>
            /\ code[k].offset >= 1
            /\ (k - 1) + code[k].offset \in 0..Len(code)

RECURSIVE PcIncreases(_)
\* Until the invocation in progress on m ends, every instruction after which
\* the frame goes on leaves it at a greater index.
PcIncreases(m) ==
    \/ m.pystack = << >>
    \/ Bind(ExecuteStep(m), LAMBDA after :
            /\ after.pystack # << >> => Top(after).pc > Top(m).pc
            /\ PcIncreases(after))

\* C33: in every artifact compile() returns, every jump of every function has
\* an offset >= 1 and a target in 0..len(code); run on the VM, such a function
\* (these make no CALL) moves to a greater index with every instruction and
\* returns or fails after at most len(code) instructions.
C33_CompiledCodeTerminates ==
    (cphase = "compiled" /\ compiler.exception = "") =>
        \A cn \in DOMAIN compiler.bytecode.contracts :
        \A fn \in DOMAIN compiler.bytecode.contracts[cn].functions :
            LET entry == compiler.bytecode.contracts[cn].functions[fn]
                args == [i \in 1..Len(entry.params) |-> IntV(0)]
            IN /\ JumpsForward(entry.code)
               /\ \A slots \in SlotChoices :
                    LET entered == EnterFunction(LoadedWith(compiler.bytecode, slots),
                                                 cn, fn, args, 1, 1)
                    IN /\ entered.pystack # << >>
                       /\ PcIncreases(entered)
                       /\ RunToEnd(entered).pystack = << >>
                       /\ RunToEnd(entered).stats.instructions_executed <= Len(entry.code)

\* An if/else compiled without errors: the function's code has a JUMP, and
\* run with a falsy x it takes the JUMP_IF_FALSE and the JUMP and returns.
C33_BothJumpsTaken ==
    /\ cphase = "compiled"
    /\ compiler.errors = << >>
    /\ compiler.exception = ""
    /\ "T" \in DOMAIN compiler.bytecode.contracts
    /\ "f" \in DOMAIN compiler.bytecode.contracts["T"].functions
    /\ LET entry == compiler.bytecode.contracts["T"].functions["f"]
           ended == RunToEnd(EnterFunction(LoadedWith(compiler.bytecode, EmptyDict), "T", "f",
                                           [i \in 1..Len(entry.params) |-> IntV(0)], 1, 1))
       IN /\ \E k \in 1..Len(entry.code) : entry.code[k].op = "JUMP"
          /\ Len(entry.code) >= 2
          /\ entry.code[1].op = "LOAD_STATE"
          /\ entry.code[2].op = "JUMP_IF_FALSE"
          /\ ended.last.outcome = "ok"
          /\ ended.stats.instructions_executed >= 3
          /\ ended.stats.instructions_executed < Len(entry.code)

\* ------------------------------------------------------------------------ C34
RECURSIVE RunToIndex(_, _)
\* The VM when the invocation in progress on m has ended or its frame has
\* come to index j or past it.
RunToIndex(m, j) ==
    IF m.pystack = << >> \/ Top(m).pc >= j
    THEN m
    ELSE Bind(ExecuteStep(m), LAMBDA after : RunToIndex(after, j))

\* The argument lists of n values the compiled functions are called with.
ArgChoices(n) == [1..n -> {IntV(0), IntV(2)}]

\* The number of instructions the body of a function entry compiled to: a
\* constructor's code has a RETURN appended, that of a function without
\* return type is the body's.
BodyLength(entry) == IF entry.has_meta THEN Len(entry.code) ELSE Len(entry.code) - 1

C35_SelfPushesSelf ==
    (cphase = "compiled" /\ ast \in SelfInputs) =>
        LET functions == compiler.bytecode.contracts[ast.children[1].attributes.name].functions
        IN /\ compiler.errors = << >>
           /\ "f" \in DOMAIN functions
           /\ functions["f"].code = << [Instr("PUSH") EXCEPT !.value = StrV("self")],
                                       Instr("POP") >>

\* ------------------------------------------------------------------------ C36
\* Whether contract name of the artifact has function_name and the state
\* variable x compiled.
CompiledInto(bytecode, name, function_name) ==
    /\ name \in DOMAIN bytecode.contracts
    /\ function_name \in DOMAIN bytecode.contracts[name].functions
    /\ "x" \in DOMAIN bytecode.contracts[name].state_variables

\* C36: when the second top-level declaration has the name of the first,
\* exactly one error is appended, the global symbol keeps the kind of the
\* first declaration, and the members of the first declaration (when it is a
\* contract) and of contract U are compiled into the artifact.
C36_DuplicateSkipped ==
    (/\ cphase = "compiled"
     /\ ast \in DuplicateInputs
     /\ ast.children[2].attributes.name = ast.children[1].attributes.name) =>
        /\ Len(compiler.errors) = 1
        /\ compiler.symbols[1]["T"].symbol_type = ast.children[1].node_type
        /\ CompiledInto(compiler.bytecode, "U", "g")
        /\ ast.children[1].node_type = "CONTRACT" =>
               CompiledInto(compiler.bytecode, "T", "f")

\* ------------------------------------------------------------------------ C37
\* The code "emit E(1, ..., k)" is to compile to: the arguments' PUSHes and EMIT.
EmitCode(k) ==
    [i \in 1..k |-> [Instr("PUSH") EXCEPT !.value = IntV(i)]]
    \o << [Instr("EMIT") EXCEPT !.event = "E", !.args_count = k] >>

\* C37: "emit E(args)" in f compiles to the argument code and EMIT exactly
\* when the contract declares event E with as many parameters as the
\* statement has arguments, before f or after it; otherwise one error is
\* appended and the statement compiles to nothing.
C37_EmitOrderIndependent ==
    (cphase = "compiled" /\ ast \in EmitOrderInputs) =>
        LET members == ast.children[1].children
            function == members[CHOOSE i \in DOMAIN members :
                                    members[i].node_type = "FUNCTION"]
            k == Len(function.children[1].children[1].children)
            declared == \E i \in DOMAIN members :
                            /\ members[i].node_type = "EVENT"
                            /\ Len(members[i].children) = k
            code == compiler.bytecode.contracts["T"].functions["f"].code
        IN IF declared
           THEN compiler.errors = << >> /\ code = EmitCode(k)
           ELSE Len(compiler.errors) = 1 /\ code = << >>

\* ------------------------------------------------------------------------ C38
\* C38: no exception leaves compile(); for a body of one while, for, foreach,
\* assert, revert or try/catch statement, or of a node that is no statement,
\* one error is appended, f is in the artifact with no instructions and the
\* function g after it is compiled.
C38_ErrorsOnlyInList ==
    cphase = "compiled" =>
        /\ returned[1].exception = ""
        /\ ast \in LoopInputs =>
               LET functions == returned[1].bytecode.contracts["T"].functions IN
               /\ Len(returned[1].errors) = 1
               /\ DOMAIN functions = {"f", "g"}
               /\ functions["f"].code = << >>
               /\ functions["g"].code # << >>

\* ------------------------------------------------------------------------ C39
RECURSIVE StandingAt(_, _)
\* The lexer on input_text when it stands on character k (0-based): __init__
\* and k further read_char().
StandingAt(input_text, k) ==
    IF k = 0
    THEN NewLexer(input_text)
    ELSE Bind(StandingAt(input_text, k - 1), LAMBDA before : ReadChar(before))

\* The places (0-based) of the characters of the text at which the lexer's
\* line and column are those recorded in the token.
RecordedPlaces(input_text, token) ==
    { k \in 0..(Len(input_text) - 1) :
        /\ StandingAt(input_text, k).line = token.line
        /\ StandingAt(input_text, k).column = token.column }

\* Whether the text has the token's lexeme at the place the token records.
LexemeInPlace(input_text, token) ==
    \E k \in RecordedPlaces(input_text, token) :
        Slice(input_text, k, k + Len(token.literal)) = token.literal

\* Whether token next starts at or after the end of the lexeme of token.
Follows(input_text, token, next) ==
    \A k \in RecordedPlaces(input_text, token), j \in RecordedPlaces(input_text, next) :
        k + Len(token.literal) <= j

\* C39: every token of the list other than EOF has, at the place of the
\* source its line and column record, the characters of its lexeme, and
\* each such token starts where the lexeme of the one before it has ended,
\* or later.
C39_LexemesMatchSource ==
    \A i \in 1..Len(tokens) :
        tokens[i].token_type # "EOF" =>
            /\ LexemeInPlace(lexer.input, tokens[i])
            /\ i > 1 => Follows(lexer.input, tokens[i - 1], tokens[i])

====
